---- MODULE Spec2Model ----
(***************************************************************************)
(* Model of the J.A.R.V.I.S. traffic inspection pipeline:                  *)
(*   hardware_integration/dpi/dpi_engine.c     (DPI engine)                *)
(* Bytes are naturals 0..255, byte strings are sequences of bytes.         *)
(***************************************************************************)
EXTENDS Integers, Sequences, FiniteSets, TLC

\* the null pointer
NULL == [null |-> TRUE]

(* ---------------- constants of dpi_engine.h ---------------- *)
DPI_PROTO_UNKNOWN == 0
DPI_PROTO_HTTP == 1
DPI_PROTO_HTTPS == 2
DPI_PROTO_DNS == 3
DPI_PROTO_SMTP == 4
DPI_PROTO_SMTPS == 5
DPI_PROTO_FTP == 6
DPI_PROTO_FTPS == 7
DPI_PROTO_SMB == 8
DPI_PROTO_SSH == 9
DPI_PROTO_TELNET == 10
DPI_PROTO_SNMP == 11

DPI_STATE_NEW == 0
DPI_STATE_ESTABLISHED == 1

DPI_RULE_REGEX == 0
DPI_RULE_CONTENT == 3

DPI_MAX_ALERTS == 1000000

(* ---------------- bounds of the model ---------------- *)
\* config.max_concurrent_sessions handed to dpi_init
MaxSessions == 2
\* rules.max_rules (DPI_MAX_RULES in the source, scaled down)
MaxRules == 3
\* number of successful dpi_add_rule calls explored
MaxAdds == 3
\* number of dpi_process_packet calls explored
MaxPackets == 3
\* number of packets explored on the one session of the anomaly specification
MaxBurst == 12
\* number of alerts queued in the alert-queue specification
MaxQueued == 3
\* ring_buffer.size in bytes (buffer_size_mb MiB in the source, scaled down)
RingSize == 4
\* number of ringbuffer_append calls explored
MaxAppends == 4
\* flow_table.size (table_size handed to capture_flow_enable)
FlowTableSize == 4
\* number of flow_table_update calls explored
MaxUpdates == 2
\* number of capture_cleanup calls explored on one session
MaxCleanups == 2
\* threads calling into the library at the same time
NumThreads == 2

(* ---------------- byte strings ---------------- *)
\* a packet buffer: head spells out the first bytes, the rest up to len is
\* the filler byte 'A' (65)
Payload(head, len) == [head |-> head, len |-> len]

\* data[i] (0-based) as the C code reads it.  A read at i >= len leaves the
\* packet: the byte right after the packet is `over` (whatever the caller's
\* memory holds there), the bytes after it are NUL.
ByteAt(p, i, over) ==
    IF i < Len(p.head) THEN p.head[i + 1]
    ELSE IF i < p.len THEN 65
    ELSE IF i = p.len THEN over
    ELSE 0

\* strncmp(data, lit, Len(lit)) == 0 for a literal without NUL
StrNCmpEq(p, lit, over) ==
    \A i \in 1..Len(lit) : ByteAt(p, i - 1, over) = lit[i]

\* first offset >= i holding NUL: the scan walks the spelled-out bytes, steps
\* over the filler (never NUL) and stops at the latest on the NUL at len + 1
RECURSIVE FirstNul(_, _, _)
FirstNul(p, i, over) ==
    IF ByteAt(p, i, over) = 0 THEN i
    ELSE IF i >= Len(p.head) /\ i < p.len THEN FirstNul(p, p.len, over)
    ELSE FirstNul(p, i + 1, over)

\* length of the C string at data (index of its first NUL)
StrLen(p, over) == FirstNul(p, 0, over)

\* strchr(data, c) for c other than NUL and the filler: offset of the first c
\* from offset i on, or NotFound for a null result
NotFound == 0 - 1

RECURSIVE StrChrFrom(_, _, _, _)
StrChrFrom(p, i, c, over) ==
    IF ByteAt(p, i, over) = c THEN i
    ELSE IF ByteAt(p, i, over) = 0 THEN NotFound
    ELSE IF i >= Len(p.head) /\ i < p.len THEN StrChrFrom(p, p.len, c, over)
    ELSE StrChrFrom(p, i + 1, c, over)

StrChr(p, c, over) == StrChrFrom(p, 0, c, over)

\* strstr(data, lit) != NULL for a literal that is not a run of the filler:
\* a match cannot lie inside the filler, so only starts near spelled-out bytes count
StrStr(p, lit, over) ==
    LET n == Len(lit)
        slen == StrLen(p, over)
        starts == {i \in (0..(Len(p.head) - 1)) \cup ((p.len - n)..p.len) :
                     i >= 0 /\ i + n <= slen}
    IN \E i \in starts :
          \A k \in 1..n : ByteAt(p, i + k - 1, over) = lit[k]

IsDigit(b) == b >= 48 /\ b <= 57
IsSpace(b) == b = 32 \/ (b >= 9 /\ b <= 13)

RECURSIVE AtoiDigits(_, _, _, _)
AtoiDigits(p, i, over, acc) ==
    IF IsDigit(ByteAt(p, i, over))
    THEN AtoiDigits(p, i + 1, over, acc * 10 + (ByteAt(p, i, over) - 48))
    ELSE acc

RECURSIVE SkipSpace(_, _, _)
SkipSpace(p, i, over) ==
    IF IsSpace(ByteAt(p, i, over)) THEN SkipSpace(p, i + 1, over) ELSE i

\* atoi(data + i)
Atoi(p, i, over) ==
    LET j == SkipSpace(p, i, over)
        b == ByteAt(p, j, over)
    IN IF b = 45 THEN 0 - AtoiDigits(p, j + 1, over, 0)
       ELSE IF b = 43 THEN AtoiDigits(p, j + 1, over, 0)
       ELSE AtoiDigits(p, j, over, 0)

STR_GET == <<71, 69, 84, 32>>
STR_POST == <<80, 79, 83, 84, 32>>
STR_PUT == <<80, 85, 84, 32>>
STR_DELETE == <<68, 69, 76, 69, 84, 69, 32>>
STR_HEAD == <<72, 69, 65, 68, 32>>
STR_OPTIONS == <<79, 80, 84, 73, 79, 78, 83, 32>>
STR_PATCH == <<80, 65, 84, 67, 72, 32>>
STR_HTTP == <<72, 84, 84, 80, 47>>
STR_EHLO == <<69, 72, 76, 79, 32>>
STR_HELO == <<72, 69, 76, 79, 32>>
STR_MAIL == <<77, 65, 73, 76, 32>>
STR_RCPT == <<82, 67, 80, 84, 32>>
STR_DATA == <<68, 65, 84, 65>>
STR_QUIT == <<81, 85, 73, 84>>
STR_UA == <<85, 115, 101, 114, 45, 65, 103, 101, 110, 116, 58, 32>>

(* ---------------- protocol dissectors ---------------- *)
\* every dissector returns [proto, out]: the tag and the record stored in *out
Declined == [proto |-> DPI_PROTO_UNKNOWN, out |-> NULL]

dissect_http(p, over, malloc_ok) ==
    IF p.len < 7 THEN Declined
    ELSE IF \/ StrNCmpEq(p, STR_GET, over)
            \/ StrNCmpEq(p, STR_POST, over)
            \/ StrNCmpEq(p, STR_PUT, over)
            \/ StrNCmpEq(p, STR_DELETE, over)
            \/ StrNCmpEq(p, STR_HEAD, over)
            \/ StrNCmpEq(p, STR_OPTIONS, over)
            \/ StrNCmpEq(p, STR_PATCH, over)
    THEN IF ~malloc_ok THEN Declined
         ELSE LET space == StrChr(p, 32, over)
                  method == IF space # NotFound /\ space < 16
                            THEN [i \in 1..space |-> ByteAt(p, i - 1, over)]
                            ELSE <<>>
              IN [proto |-> DPI_PROTO_HTTP,
                  out |-> [is_request |-> 1, method |-> method, status_code |-> 0]]
    ELSE IF StrNCmpEq(p, STR_HTTP, over)
    THEN IF ~malloc_ok THEN Declined
         ELSE LET space == StrChr(p, 32, over)
                  code == IF space # NotFound
                          THEN Atoi(p, space + 1, over) % 65536
                          ELSE 0
              IN [proto |-> DPI_PROTO_HTTP,
                  out |-> [is_request |-> 0, method |-> <<>>, status_code |-> code]]
    ELSE Declined

dissect_dns(p, over, malloc_ok) ==
    IF p.len < 12 THEN Declined
    ELSE IF ~malloc_ok THEN Declined
    ELSE [proto |-> DPI_PROTO_DNS,
          out |-> [transaction_id |-> ByteAt(p, 0, over) * 256 + ByteAt(p, 1, over),
                   is_query |-> IF (ByteAt(p, 2, over) \div 128) % 2 = 1 THEN 0 ELSE 1,
                   response_code |-> ByteAt(p, 3, over) % 16]]

dissect_tls(p, over, malloc_ok) ==
    IF p.len < 5 THEN Declined
    ELSE LET content_type == ByteAt(p, 0, over)
             major == ByteAt(p, 1, over)
             minor == ByteAt(p, 2, over)
         IN IF content_type # 22 /\ content_type # 23 /\ content_type # 21
            THEN Declined
            ELSE IF major # 3 \/ (minor < 1 \/ minor > 4) THEN Declined
            ELSE IF ~malloc_ok THEN Declined
            ELSE [proto |-> DPI_PROTO_HTTPS,
                  out |-> [version_major |-> major, version_minor |-> minor]]

dissect_smtp(p, over) ==
    IF p.len < 8 THEN Declined
    ELSE IF /\ IsDigit(ByteAt(p, 0, over))
            /\ IsDigit(ByteAt(p, 1, over))
            /\ IsDigit(ByteAt(p, 2, over))
            /\ ByteAt(p, 3, over) = 32
    THEN [proto |-> DPI_PROTO_SMTP, out |-> NULL]
    ELSE IF \/ StrNCmpEq(p, STR_EHLO, over)
            \/ StrNCmpEq(p, STR_HELO, over)
            \/ StrNCmpEq(p, STR_MAIL, over)
            \/ StrNCmpEq(p, STR_RCPT, over)
            \/ StrNCmpEq(p, STR_DATA, over)
            \/ StrNCmpEq(p, STR_QUIT, over)
    THEN [proto |-> DPI_PROTO_SMTP, out |-> NULL]
    ELSE Declined

dissect_smb(p, over) ==
    IF p.len < 4 THEN Declined
    ELSE IF /\ (ByteAt(p, 0, over) = 255 \/ ByteAt(p, 0, over) = 254)
            /\ ByteAt(p, 1, over) = 83
            /\ ByteAt(p, 2, over) = 77
            /\ ByteAt(p, 3, over) = 66
    THEN [proto |-> DPI_PROTO_SMB, out |-> NULL]
    ELSE Declined

classify_by_port(src_port, dst_port) ==
    IF dst_port = 80 \/ src_port = 80 THEN DPI_PROTO_HTTP
    ELSE IF dst_port = 443 \/ src_port = 443 THEN DPI_PROTO_HTTPS
    ELSE IF dst_port = 53 \/ src_port = 53 THEN DPI_PROTO_DNS
    ELSE IF dst_port = 25 \/ dst_port = 587 \/ src_port = 25 THEN DPI_PROTO_SMTP
    ELSE IF dst_port = 465 \/ src_port = 465 THEN DPI_PROTO_SMTPS
    ELSE IF dst_port = 21 \/ src_port = 21 THEN DPI_PROTO_FTP
    ELSE IF dst_port = 990 \/ src_port = 990 THEN DPI_PROTO_FTPS
    ELSE IF dst_port = 445 \/ src_port = 445 THEN DPI_PROTO_SMB
    ELSE IF dst_port = 22 \/ src_port = 22 THEN DPI_PROTO_SSH
    ELSE IF dst_port = 23 \/ src_port = 23 THEN DPI_PROTO_TELNET
    ELSE IF dst_port = 161 \/ src_port = 161 THEN DPI_PROTO_SNMP
    ELSE DPI_PROTO_UNKNOWN

(* ---------------- engine state ---------------- *)
VARIABLES
    config,           \* engine->config (the fields the code reads)
    sessions,         \* engine->sessions.sessions[0 .. count-1]
    next_session_id,  \* engine->next_session_id
    rules,            \* engine->rules.rules[0 .. rule_count-1]
    compiled_regex,   \* engine->rules.compiled_regex[0 .. max_rules-1]
    alerts,           \* engine->alerts: head, tail and the queue slots
    next_alert_id,    \* engine->next_alert_id
    stats,            \* engine->stats
    regex_made,       \* history: number of successful regcomp calls
    regex_freed,      \* history: the matchers handed to regfree, in order
    issued,           \* history: the non-zero ids dpi_add_rule has returned
    created,          \* history: the session ids assigned, in creation order
    ring_buffer,      \* session->ring_buffer: size, write_pos, read_pos, buffer
    flow_table,       \* session->flow_table: size, count, entries
    capture,          \* the capture session: its flags and what it still owns
    caller,           \* the caller's out-parameters: packet_id and FlowRecord
    capture_log,      \* history: packet ids appended, updates made per tuple
    threads,          \* each calling thread: the call it is in and where
    locks,            \* each lock: the writer and the readers holding it
    call              \* the last API call, its arguments and its return value

vars == <<config, sessions, next_session_id, rules, compiled_regex, alerts,
          next_alert_id, stats, regex_made, regex_freed, issued, created,
          ring_buffer, flow_table, capture, caller, capture_log, threads,
          locks, call>>

dpiSessionVars == <<sessions, next_session_id, stats, created>>
dpiRuleVars == <<rules, compiled_regex, regex_made, regex_freed, issued>>
dpiAlertVars == <<alerts, next_alert_id>>
captureVars == <<ring_buffer, flow_table, capture, caller, capture_log>>
dpiVars == <<config, dpiSessionVars, dpiRuleVars, dpiAlertVars>>
threadVars == <<threads, locks>>

\* the field-by-field comparison of two tuples
flow_tuple_equal_no_dst_port(a, b) ==
    /\ a.src_ip = b.src_ip
    /\ a.dst_ip = b.dst_ip
    /\ a.src_port = b.src_port
    /\ a.protocol = b.protocol

flow_tuple_equal(a, b) ==
    /\ a.src_ip = b.src_ip
    /\ a.dst_ip = b.dst_ip
    /\ a.src_port = b.src_port
    /\ a.dst_port = b.dst_port
    /\ a.protocol = b.protocol

\* index (1-based) of the first session whose flow equals flow, 0 when none
FindSession(tbl, flow) ==
    LET hits == {i \in 1..Len(tbl) : flow_tuple_equal(tbl[i].flow, flow)}
    IN IF hits = {} THEN 0 ELSE CHOOSE i \in hits : \A j \in hits : i <= j

\* calloc'ed session as filled in by dpi_process_packet
NewSession(id, flow, ts) ==
    [session_id |-> id,
     flow |-> flow,
     state |-> DPI_STATE_NEW,
     protocol |-> [protocol |-> DPI_PROTO_UNKNOWN, confidence |-> 0, detection_tick |-> 0],
     http_data |-> NULL,
     dns_data |-> NULL,
     tls_data |-> NULL,
     anomalies |-> NULL,
     anomaly_count |-> 0,
     created_ns |-> ts,
     last_seen_ns |-> ts,
     packets_seen |-> 0,
     total_bytes |-> 0,
     classify_runs |-> 0,   \* history: times the classification cascade ran
     via |-> "none",        \* history: branch the last cascade run ended in
     cap_hits |-> 0]        \* history: detect_anomalies calls turned away at the cap

\* the guard of the classification block
NeedsClassificationAlways(s, p) == p.len > 0

NeedsClassification(s, p) ==
    s.protocol.protocol = DPI_PROTO_UNKNOWN /\ p.len > 0

\* the if / else-if cascade of dpi_process_packet
ClassifySession(s, flow, p, over, mem) ==
    LET http == dissect_http(p, over, mem.http)
        dns == dissect_dns(p, over, mem.dns)
        tls == dissect_tls(p, over, mem.tls)
        smtp == dissect_smtp(p, over)
        smb == dissect_smb(p, over)
        t == IF http.proto # DPI_PROTO_UNKNOWN
             THEN [s EXCEPT !.protocol.protocol = DPI_PROTO_HTTP, !.http_data = http.out,
                            !.via = "payload"]
             ELSE IF dns.proto # DPI_PROTO_UNKNOWN
             THEN [s EXCEPT !.protocol.protocol = DPI_PROTO_DNS, !.dns_data = dns.out,
                            !.via = "payload"]
             ELSE IF tls.proto # DPI_PROTO_UNKNOWN
             THEN [s EXCEPT !.protocol.protocol = DPI_PROTO_HTTPS, !.tls_data = tls.out,
                            !.via = "payload"]
             ELSE IF smtp.proto # DPI_PROTO_UNKNOWN
             THEN [s EXCEPT !.protocol.protocol = DPI_PROTO_SMTP, !.via = "payload"]
             ELSE IF smb.proto # DPI_PROTO_UNKNOWN
             THEN [s EXCEPT !.protocol.protocol = DPI_PROTO_SMB, !.via = "payload"]
             ELSE [s EXCEPT !.protocol.protocol =
                                classify_by_port(flow.src_port, flow.dst_port),
                            !.via = "port"]
    IN [t EXCEPT !.protocol.detection_tick = t.packets_seen,
                 !.classify_runs = @ + 1]

\* an array slot that realloc handed back without contents
Uninit == [uninit |-> TRUE]

\* the cap detect_anomalies tests before it looks at the packet
AnomalyListFullOffByOne(s) == s.anomaly_count > 10

AnomalyListFull(s) == s.anomaly_count >= 10

detect_anomalies(s, p, over, realloc_ok) ==
    IF AnomalyListFull(s) THEN [s EXCEPT !.cap_hits = @ + 1]
    ELSE
    LET zero == [anomaly_type |-> 0, description |-> <<>>, severity |-> 0]
        isHttp == s.protocol.protocol = DPI_PROTO_HTTP
        a1 == IF isHttp /\ p.len > 8192
              THEN [anomaly_type |-> 1,
                    description |-> <<"HTTP packet exceeds normal header size", p.len>>,
                    severity |-> 5]
              ELSE zero
        a2 == IF isHttp /\ StrStr(p, STR_UA, over)
              THEN [anomaly_type |-> 2,
                    description |-> <<"HTTP request contains suspicious User-Agent">>,
                    severity |-> 3]
              ELSE a1
        a3 == IF isHttp /\ s.flow.dst_port # 80 /\ s.flow.dst_port # 8080
              THEN [anomaly_type |-> 3,
                    description |-> <<"HTTP on non-standard port", s.flow.dst_port>>,
                    severity |-> 4]
              ELSE a2
        old == IF s.anomalies = NULL
               THEN [i \in 1..s.anomaly_count |-> Uninit]
               ELSE s.anomalies.arr
    IN IF a3.anomaly_type = 0 THEN s
       ELSE IF realloc_ok
       THEN [s EXCEPT !.anomalies = [arr |-> Append(old, a3)], !.anomaly_count = @ + 1]
       ELSE [s EXCEPT !.anomalies = NULL]

\* the argument check at the top of dpi_process_packet
RejectsPacketNoLen(flow, p) == flow = NULL \/ p = NULL

RejectsPacket(flow, p) ==
    \/ flow = NULL
    \/ p = NULL
    \/ p.len = 0

\* sessions.count < sessions.capacity, the test before a session is created
HasRoomOffByOne(count, capacity) == count <= capacity

HasRoom(count, capacity) == count < capacity

\* session->session_id = engine->next_session_id++
AssignSessionIdByCount(next_id, count) == count + 1

AssignSessionId(next_id, count) == next_id

dpi_process_packet(flow, p, ts, is_response, over, mem) ==
    IF RejectsPacket(flow, p)
    THEN /\ call' = [op |-> "dpi_process_packet", flow |-> flow, payload |-> p,
                     rejected |-> TRUE, ret |-> 0]
         /\ UNCHANGED <<captureVars, config, dpiSessionVars, dpiRuleVars, dpiAlertVars>>
    ELSE
    LET idx == FindSession(sessions, flow)
        made == /\ idx = 0
                /\ HasRoom(Len(sessions), config.max_concurrent_sessions)
                /\ mem.session
        s0 == IF idx # 0 THEN sessions[idx]
              ELSE NewSession(AssignSessionId(next_session_id, Len(sessions)), flow, ts)
        s1 == [s0 EXCEPT !.last_seen_ns = ts,
                         !.packets_seen = @ + 1,
                         !.total_bytes = @ + p.len]
        s2 == IF NeedsClassification(s1, p)
              THEN ClassifySession(s1, flow, p, over, mem)
              ELSE s1
        s3 == IF s2.state = DPI_STATE_NEW
              THEN [s2 EXCEPT !.state = DPI_STATE_ESTABLISHED]
              ELSE s2
        s4 == IF config.enable_anomaly_detection
              THEN detect_anomalies(s3, p, over, mem.anomaly)
              ELSE s3
        tbl == IF idx # 0 THEN [sessions EXCEPT ![idx] = s4]
               ELSE IF made THEN Append(sessions, s4)
               ELSE sessions
    IN /\ sessions' = tbl
       /\ next_session_id' = IF made THEN next_session_id + 1 ELSE next_session_id
       /\ created' = IF made THEN Append(created, s4.session_id) ELSE created
       /\ stats' = [stats EXCEPT !.packets_processed = @ + 1,
                                 !.bytes_processed = @ + p.len,
                                 !.active_sessions = Len(tbl)]
       /\ call' = [op |-> "dpi_process_packet", flow |-> flow, payload |-> p,
                   rejected |-> FALSE, ret |-> 0]
       /\ UNCHANGED <<captureVars, config, dpiRuleVars, dpiAlertVars>>

(* ---------------- session API ---------------- *)
\* count-- without the memmove: the last element is lost instead
RemoveLast(seq, i) == SubSeq(seq, 1, Len(seq) - 1)

RemoveAt(seq, i) == SubSeq(seq, 1, i - 1) \o SubSeq(seq, i + 1, Len(seq))

dpi_terminate_session(flow) ==
    LET idx == IF flow = NULL THEN 0 ELSE FindSession(sessions, flow)
    IN /\ sessions' = IF idx = 0 THEN sessions ELSE RemoveAt(sessions, idx)
       /\ call' = [op |-> "dpi_terminate_session", flow |-> flow,
                   ret |-> IF idx = 0 THEN 0 - 1 ELSE 0]
       /\ UNCHANGED <<captureVars, config, next_session_id, stats, created, dpiRuleVars, dpiAlertVars>>

\* the pointer dpi_get_session returns: the session, or NULL
dpi_get_session(flow) ==
    IF flow = NULL \/ FindSession(sessions, flow) = 0 THEN NULL
    ELSE sessions[FindSession(sessions, flow)]

dpi_classify_protocol(flow) ==
    IF dpi_get_session(flow) = NULL
    THEN [protocol |-> DPI_PROTO_UNKNOWN, confidence |-> 0, detection_tick |-> 0]
    ELSE dpi_get_session(flow).protocol

dpi_get_protocol_data(flow, protocol) ==
    LET session == dpi_get_session(flow)
    IN IF session = NULL THEN NULL
       ELSE IF protocol = DPI_PROTO_HTTP \/ protocol = DPI_PROTO_HTTPS
       THEN session.http_data
       ELSE IF protocol = DPI_PROTO_DNS THEN session.dns_data
       ELSE NULL

dpi_get_stats == stats

(* ---------------- locks and calling threads ---------------- *)
Threads == 1..NumThreads

Idle == [op |-> "none", pc |-> "idle", arg |-> NULL, local |-> NULL]

LockNames == {"sessions", "rules", "alerts", "stats", "session_lock", "ring_lock", "flow_lock"}

FreeLock == [writer |-> 0, readers |-> {}]

\* a write lock that never waits
WrLockNoWait(l) == TRUE

\* pthread_rwlock_wrlock / pthread_mutex_lock / pthread_spin_lock return
\* when nobody holds the lock; pthread_rwlock_rdlock when no writer does
CanWrLock(l) == locks[l].writer = 0 /\ locks[l].readers = {}

CanRdLock(l) == locks[l].writer = 0

WrLocked(l, t) == [locks EXCEPT ![l].writer = t]

RdLocked(l, t) == [locks EXCEPT ![l].readers = @ \cup {t}]

Unlocked(l, t) ==
    [locks EXCEPT ![l] = [writer |-> IF @.writer = t THEN 0 ELSE @.writer,
                          readers |-> @.readers \ {t}]]

At(t, op, pc) == threads[t].op = op /\ threads[t].pc = pc

Goto(t, op, pc, arg, local) ==
    [threads EXCEPT ![t] = [op |-> op, pc |-> pc, arg |-> arg, local |-> local]]

Return(t) == [threads EXCEPT ![t] = Idle]

(* ---------------- rule engine ---------------- *)
\* regcomp(pattern, REG_EXTENDED | REG_ICASE): 0 on success.  An extended
\* regular expression whose parentheses do not balance is rejected.
RECURSIVE ParenDepth(_, _, _)
ParenDepth(pat, i, d) ==
    IF d < 0 THEN d
    ELSE IF i > Len(pat) THEN d
    ELSE IF pat[i] = 40 THEN ParenDepth(pat, i + 1, d + 1)
    ELSE IF pat[i] = 41 THEN ParenDepth(pat, i + 1, d - 1)
    ELSE ParenDepth(pat, i + 1, d)

regcomp(pat) == IF ParenDepth(pat, 1, 0) = 0 THEN 0 ELSE 1

\* contents of one compiled_regex slot
ZeroRegex == [st |-> "zero", h |-> 0]

\* the id dpi_add_rule gives the rule it stores
NextRuleId(cnt) == cnt + 1

\* the test made before the rules lock is taken
AddRuleRefused(rule) == rule = NULL \/ Len(rules) >= MaxRules

\* the part of dpi_add_rule that runs under the rules lock.  A slot beyond
\* max_rules is outside both arrays: the rule written there shows as an
\* element past MaxRules, the matcher is not tracked.
add_rule_locked(rule) ==
    LET cnt == Len(rules)
        rule_id == NextRuleId(cnt)
        stored == [rule EXCEPT !.rule_id = rule_id]
        isRegex == rule.type = DPI_RULE_REGEX /\ rule.pattern # NULL
        compiled == isRegex /\ regcomp(rule.pattern.str) = 0
        accepted == compiled \/ ~isRegex
    IN /\ rules' = IF accepted THEN Append(rules, stored) ELSE rules
       /\ compiled_regex' =
             IF compiled
             THEN [compiled_regex EXCEPT ![cnt + 1] = [st |-> "compiled", h |-> regex_made + 1]]
             ELSE IF isRegex
             THEN [compiled_regex EXCEPT ![cnt + 1] = [st |-> "undefined", h |-> 0]]
             ELSE compiled_regex
       /\ regex_made' = IF compiled THEN regex_made + 1 ELSE regex_made
       /\ issued' = IF accepted THEN Append(issued, rule_id) ELSE issued
       /\ call' = [op |-> "dpi_add_rule", rule |-> rule,
                   ret |-> IF accepted THEN rule_id ELSE 0]
       /\ UNCHANGED <<captureVars, config, dpiSessionVars, dpiAlertVars, regex_freed>>

dpi_add_rule(rule) ==
    IF AddRuleRefused(rule)
    THEN /\ call' = [op |-> "dpi_add_rule", rule |-> rule, ret |-> 0]
         /\ UNCHANGED <<captureVars, config, dpiSessionVars, dpiRuleVars, dpiAlertVars>>
    ELSE add_rule_locked(rule)

\* index (1-based) of the first rule with this id, 0 when none
FindRule(rule_id) ==
    LET hits == {i \in 1..Len(rules) : rules[i].rule_id = rule_id}
    IN IF hits = {} THEN 0 ELSE CHOOSE i \in hits : \A j \in hits : i <= j

\* regfree is defined for a matcher a successful regcomp filled and nothing
\* released since, and harmless on a zeroed regex_t; on any other slot
\* (released before, left by a failed regcomp, or a byte copy of a released
\* matcher) it frees pointers that are not live
ReleasedHandles == {regex_freed[k].h : k \in 1..Len(regex_freed)}

SafeToRelease(slot) ==
    \/ slot.st = "zero"
    \/ slot.st = "compiled" /\ slot.h \notin ReleasedHandles

\* the process died inside the last call
Aborted == call.op = "dpi_remove_rule" /\ call.aborted

dpi_remove_rule(rule_id) ==
    LET i == IF rule_id = 0 THEN 0 ELSE FindRule(rule_id)
        cnt == Len(rules)
        isRegex == rules[i].type = DPI_RULE_REGEX
        \* regfree(&compiled_regex[i])
        released == IF isRegex
                    THEN [compiled_regex EXCEPT ![i] = [st |-> "freed", h |-> @.h]]
                    ELSE compiled_regex
        \* memmove of the tail: slot cnt keeps its bytes
        moved == [k \in 1..MaxRules |->
                     IF k >= i /\ k < cnt THEN released[k + 1] ELSE released[k]]
    IN IF i = 0
       THEN /\ call' = [op |-> "dpi_remove_rule", rule_id |-> rule_id,
                        aborted |-> FALSE, ret |-> 0 - 1]
            /\ UNCHANGED <<captureVars, config, dpiSessionVars, dpiRuleVars, dpiAlertVars>>
       ELSE \/ /\ rules' = RemoveAt(rules, i)
               /\ compiled_regex' = moved
               /\ regex_freed' = IF isRegex THEN Append(regex_freed, compiled_regex[i])
                                 ELSE regex_freed
               /\ call' = [op |-> "dpi_remove_rule", rule_id |-> rule_id,
                           aborted |-> FALSE, ret |-> 0]
               /\ UNCHANGED <<captureVars, config, dpiSessionVars, dpiAlertVars, regex_made, issued>>
            \* the free of a pointer that is not live may end the process
            \/ /\ isRegex
               /\ ~SafeToRelease(compiled_regex[i])
               /\ regex_freed' = Append(regex_freed, compiled_regex[i])
               /\ call' = [op |-> "dpi_remove_rule", rule_id |-> rule_id,
                           aborted |-> TRUE, ret |-> 0 - 1]
               /\ UNCHANGED <<captureVars, config, dpiSessionVars, dpiAlertVars, rules,
                              compiled_regex, regex_made, issued>>

\* the release loop of dpi_shutdown from rule i on: regfree on the slot of
\* every rule of type REGEX; when dies, the first free of a pointer that is
\* not live ends the process
RECURSIVE ShutdownRelease(_, _, _)
ShutdownRelease(i, freed, dies) ==
    IF i > Len(rules) THEN freed
    ELSE IF rules[i].type # DPI_RULE_REGEX THEN ShutdownRelease(i + 1, freed, dies)
    ELSE LET slot == compiled_regex[i]
             safe == \/ slot.st = "zero"
                     \/ /\ slot.st = "compiled"
                        /\ \A k \in 1..Len(freed) : freed[k].h # slot.h
         IN IF ~safe /\ dies THEN Append(freed, slot)
            ELSE ShutdownRelease(i + 1, Append(freed, slot), dies)

ShutDown == call.op = "dpi_shutdown"

dpi_shutdown(dies) ==
    /\ sessions' = <<>>
    /\ regex_freed' = ShutdownRelease(1, regex_freed, dies)
    /\ rules' = <<>>
    /\ compiled_regex' = [k \in 1..MaxRules |-> ZeroRegex]
    /\ call' = [op |-> "dpi_shutdown"]
    /\ UNCHANGED <<captureVars, config, next_session_id, stats, created,
                   dpiAlertVars, regex_made, issued>>

(* ---------------- alert queue ---------------- *)
\* a calloc'ed queue slot nothing has written yet
ZeroAlert == [alert_id |-> 0, rule_id |-> 0]

\* alerts.queue[i]; alerts.queue holds the slots written so far
QueueSlot(i) == IF i \in DOMAIN alerts.queue THEN alerts.queue[i] ELSE ZeroAlert

\* the alert producer of the rule engine: one record at the tail, dropped
\* when the ring is full
alert_push(rule_id) ==
    LET next_tail == (alerts.tail + 1) % alerts.capacity
    IN /\ IF next_tail = alerts.head
          THEN UNCHANGED dpiAlertVars
          ELSE /\ alerts' = [alerts EXCEPT
                      !.queue = [i \in DOMAIN alerts.queue \cup {alerts.tail} |->
                                    IF i = alerts.tail
                                    THEN [alert_id |-> next_alert_id, rule_id |-> rule_id]
                                    ELSE alerts.queue[i]],
                      !.tail = next_tail]
               /\ next_alert_id' = next_alert_id + 1
       /\ call' = [op |-> "alert_push", rule_id |-> rule_id]
       /\ UNCHANGED <<captureVars, config, dpiSessionVars, dpiRuleVars>>

\* the copy loop of dpi_get_alerts: [out, head] when it stops
RECURSIVE GetAlertsLoopNoWrap(_, _, _, _)
GetAlertsLoopNoWrap(out, head, max_alerts, clear_after_read) ==
    IF Len(out) < max_alerts /\ head # alerts.tail
    THEN GetAlertsLoopNoWrap(Append(out, QueueSlot(head)),
                             IF clear_after_read THEN head + 1 ELSE head,
                             max_alerts, clear_after_read)
    ELSE [out |-> out, head |-> head]

RECURSIVE GetAlertsLoop(_, _, _, _)
GetAlertsLoop(out, head, max_alerts, clear_after_read) ==
    IF Len(out) < max_alerts /\ head # alerts.tail
    THEN GetAlertsLoop(Append(out, QueueSlot(head)),
                       IF clear_after_read THEN (head + 1) % alerts.capacity ELSE head,
                       max_alerts, clear_after_read)
    ELSE [out |-> out, head |-> head]

dpi_get_alerts(buf_ok, max_alerts, clear_after_read) ==
    IF ~buf_ok \/ max_alerts = 0
    THEN /\ call' = [op |-> "dpi_get_alerts", buf_ok |-> buf_ok, max_alerts |-> max_alerts,
                     clear_after_read |-> clear_after_read, out |-> <<>>, ret |-> 0]
         /\ UNCHANGED <<captureVars, config, dpiSessionVars, dpiRuleVars, dpiAlertVars>>
    ELSE
    LET r == GetAlertsLoop(<<>>, alerts.head, max_alerts, clear_after_read)
    IN /\ alerts' = [alerts EXCEPT !.head = r.head]
       /\ call' = [op |-> "dpi_get_alerts", buf_ok |-> buf_ok, max_alerts |-> max_alerts,
                   clear_after_read |-> clear_after_read, out |-> r.out,
                   ret |-> Len(r.out)]
       /\ UNCHANGED <<captureVars, config, dpiSessionVars, dpiRuleVars, next_alert_id>>

(* ---------------- packet capture: ring buffer ---------------- *)
\* the drop value of ringbuffer_append, 2^32 - 1, written modulo 2^32
UINT32_MAX == 0 - 1

\* rb->size - (rb->write_pos - rb->read_pos)
Available(rb) == rb.size - (rb.write_pos - rb.read_pos)

\* the test that drops the packet
DroppedOffByOne(available, len) == available + 1 < len

Dropped(available, len) == available < len

\* rb->write_pos % rb->size
RingOffsetNoWrap(write_pos, size) == write_pos

RingOffset(write_pos, size) == write_pos % size

\* the two memcpy calls: data lands at offset, wrapping to the start
RingCopy(buffer, size, offset, data) ==
    [i \in 0..(size - 1) |->
        LET k == (i - offset + size) % size
        IN IF k < Len(data) THEN data[k + 1] ELSE buffer[i]]

ringbuffer_append(data, len) ==
    LET rb == ring_buffer
        offset == RingOffset(rb.write_pos, rb.size)
        available == Available(rb)
    IN IF Dropped(available, len)
       THEN /\ call' = [op |-> "ringbuffer_append", len |-> len, ret |-> UINT32_MAX]
            /\ UNCHANGED <<dpiVars, captureVars>>
       ELSE /\ ring_buffer' = [rb EXCEPT !.buffer = RingCopy(rb.buffer, rb.size, offset, data),
                                         !.write_pos = rb.write_pos + len]
            /\ caller' = [caller EXCEPT !.packet_id = rb.write_pos + len]
            /\ capture_log' = [capture_log EXCEPT
                                  !.appended = Append(@, rb.write_pos + len)]
            /\ call' = [op |-> "ringbuffer_append", len |-> len, ret |-> offset]
            /\ UNCHANGED <<dpiVars, flow_table, capture>>

(* ---------------- packet capture: flow table ---------------- *)
\* 64-bit values are kept as four 16-bit limbs, lowest first
Limb == 65536

\* bitwise exclusive or of two bytes
RECURSIVE XorByte(_, _, _)
XorByte(a, b, bits) ==
    IF bits = 0 THEN 0
    ELSE ((a + b) % 2) + 2 * XorByte(a \div 2, b \div 2, bits - 1)

\* hash ^= byte
HashXor(h, byte) ==
    <<(h[1] \div 256) * 256 + XorByte(h[1] % 256, byte, 8), h[2], h[3], h[4]>>

\* hash *= FNV_PRIME, modulo 2^64; FNV_PRIME = 2^40 + 435
HashMul(h) ==
    LET m1 == h[1] * 435
        m2 == h[2] * 435 + m1 \div Limb
        m3 == h[3] * 435 + m2 \div Limb + (h[1] % 256) * 256
        c3 == m3 \div Limb
        m4 == h[4] * 435 + c3 + (h[2] % 256) * 256 + h[1] \div 256
    IN <<m1 % Limb, m2 % Limb, m3 % Limb, m4 % Limb>>

\* the bytes of a FlowTuple as they lie in memory on a little-endian build:
\* src_ip, dst_ip, src_port, dst_port, protocol, one padding byte, vlan_id
TupleBytes(tuple, pad) ==
    <<tuple.src_ip % 256, (tuple.src_ip \div 256) % 256,
      (tuple.src_ip \div 65536) % 256, tuple.src_ip \div 16777216,
      tuple.dst_ip % 256, (tuple.dst_ip \div 256) % 256,
      (tuple.dst_ip \div 65536) % 256, tuple.dst_ip \div 16777216,
      tuple.src_port % 256, tuple.src_port \div 256,
      tuple.dst_port % 256, tuple.dst_port \div 256,
      tuple.protocol, pad,
      tuple.vlan_id % 256, tuple.vlan_id \div 256>>

\* FNV_OFFSET_BASIS = 0xCBF29CE484222325
FNV_OFFSET_BASIS == <<8997, 33826, 40164, 52210>>

RECURSIVE FnvFrom(_, _, _)
FnvFrom(h, bytes, i) ==
    IF i > Len(bytes) THEN h
    ELSE FnvFrom(HashMul(HashXor(h, bytes[i])), bytes, i + 1)

\* FNV-1a over sizeof(FlowTuple) bytes, the padding byte included
flow_tuple_hash(tuple, pad) == FnvFrom(FNV_OFFSET_BASIS, TupleBytes(tuple, pad), 1)

\* flow_id % ft->size
SlotOf(flow_id, size) ==
    ((((((flow_id[4] % size) * Limb + flow_id[3]) % size) * Limb
        + flow_id[2]) % size) * Limb + flow_id[1]) % size

\* calloc'ed table memory
ZeroTuple ==
    [src_ip |-> 0, dst_ip |-> 0, src_port |-> 0, dst_port |-> 0, protocol |-> 0,
     vlan_id |-> 0]

\* 10.0.0.1:sp -> 10.0.0.2:80, TCP, on a VLAN
Tuple(sp, vlan) ==
    [src_ip |-> 167772161, dst_ip |-> 167772162, src_port |-> sp, dst_port |-> 80,
     protocol |-> 6, vlan_id |-> vlan]

\* what the padding byte of the caller's FlowTuple may hold
PadBytes == {0, 255}

\* tuples that share slots of a small table, a tuple alone in its slot, two
\* tuples that differ only in vlan_id, and the all-zero tuple
TuplesFlow == {Tuple(52344, 0), Tuple(52345, 1), Tuple(52344, 4), Tuple(52346, 0), ZeroTuple}

PayloadLens == {0, 100}

\* flow_tuple_hash of the tuples explored, computed once
FlowIds ==
    LET RECURSIVE Table(_)
        Table(S) ==
            IF S = {} THEN <<>>
            ELSE LET x == CHOOSE x \in S : TRUE
                 IN (x :> flow_tuple_hash(x[1], x[2])) @@ Table(S \ {x})
    IN Table(TuplesFlow \X PadBytes)

FlowIdOf(tuple, pad) == FlowIds[<<tuple, pad>>]

ZeroFlow ==
    [tuple |-> ZeroTuple, flow_id |-> <<0, 0, 0, 0>>, first_packet_id |-> 0,
     last_packet_id |-> 0, first_seen_ns |-> 0, last_seen_ns |-> 0, packets |-> 0,
     bytes |-> 0, bytes_fwd |-> 0, bytes_rev |-> 0, flags |-> 0, interface_id |-> 0,
     state |-> 0]

ZeroEntry == [flow |-> ZeroFlow, last_activity_ns |-> 0, packet_count |-> 0, state |-> 0]

\* the test for a free slot
SlotIsFree(entry) == entry.flow.tuple.src_ip = 0

\* the entry flow_table_update leaves in a slot that held entry
UpdatedEntry(entry, tuple, flow_id, payload_len, packet_id, timestamp_ns) ==
    LET flow1 == IF SlotIsFree(entry)
                 THEN [entry.flow EXCEPT !.tuple = tuple,
                                         !.flow_id = flow_id,
                                         !.first_packet_id = packet_id,
                                         !.first_seen_ns = timestamp_ns,
                                         !.packets = 1,
                                         !.bytes = payload_len,
                                         !.state = 0]
                 ELSE [entry.flow EXCEPT !.last_packet_id = packet_id,
                                         !.packets = @ + 1,
                                         !.bytes = @ + payload_len]
    IN [entry EXCEPT !.flow = [flow1 EXCEPT !.last_seen_ns = timestamp_ns],
                     !.last_activity_ns = timestamp_ns]

flow_table_update(tuple, pad, payload_len, packet_id, timestamp_ns) ==
    IF tuple = NULL
    THEN /\ call' = [op |-> "flow_table_update", tuple |-> tuple,
                     payload_len |-> payload_len, ret |-> 0 - 1]
         /\ UNCHANGED <<dpiVars, captureVars>>
    ELSE
    LET ft == flow_table
        flow_id == FlowIdOf(tuple, pad)
        idx == SlotOf(flow_id, ft.size)
        entry == ft.entries[idx]
        isNew == SlotIsFree(entry)
        entry1 == UpdatedEntry(entry, tuple, flow_id, payload_len, packet_id, timestamp_ns)
    IN /\ flow_table' = [ft EXCEPT !.entries[idx] = entry1,
                                   !.count = IF isNew THEN @ + 1 ELSE @]
       /\ capture_log' = [capture_log EXCEPT
                             !.updates[tuple] = [n |-> @.n + 1, bytes |-> @.bytes + payload_len]]
       /\ call' = [op |-> "flow_table_update", tuple |-> tuple,
                   payload_len |-> payload_len, ret |-> 0]
       /\ UNCHANGED <<dpiVars, ring_buffer, capture, caller>>

\* the comparison flow_table_lookup makes: five fields, vlan_id left out
LookupMatches(a, b) ==
    /\ a.src_ip = b.src_ip
    /\ a.dst_ip = b.dst_ip
    /\ a.src_port = b.src_port
    /\ a.dst_port = b.dst_port
    /\ a.protocol = b.protocol

flow_table_lookup(tuple, pad, flow_ok) ==
    IF tuple = NULL \/ ~flow_ok
    THEN /\ call' = [op |-> "flow_table_lookup", tuple |-> tuple, pad |-> pad,
                     flow_ok |-> flow_ok, ret |-> 0 - 1]
         /\ UNCHANGED <<dpiVars, captureVars>>
    ELSE
    LET ft == flow_table
        idx == SlotOf(FlowIdOf(tuple, pad), ft.size)
        entry == ft.entries[idx]
        found == LookupMatches(entry.flow.tuple, tuple)
    IN /\ caller' = IF found THEN [caller EXCEPT !.flow = entry.flow] ELSE caller
       /\ call' = [op |-> "flow_table_lookup", tuple |-> tuple, pad |-> pad,
                   flow_ok |-> flow_ok, ret |-> IF found THEN 0 ELSE 1]
       /\ UNCHANGED <<dpiVars, ring_buffer, flow_table, capture, capture_log>>

\* the public wrapper: the session's table, when flow metering is on
capture_flow_lookup(tuple, pad, flow_ok) ==
    IF tuple = NULL \/ ~flow_ok \/ ~capture.flow_enabled
    THEN /\ call' = [op |-> "flow_table_lookup", tuple |-> tuple, pad |-> pad,
                     flow_ok |-> flow_ok, ret |-> 0 - 1]
         /\ UNCHANGED <<dpiVars, captureVars>>
    ELSE flow_table_lookup(tuple, pad, flow_ok)

\* the copy loop of flow_table_get_all from slot i on: the records of the
\* slots with src_ip != 0, in slot order, until count records are written
RECURSIVE ScanFrom(_, _, _)
ScanFrom(ft, i, out) ==
    IF ~(i < ft.size /\ Len(out) < ft.count) THEN out
    ELSE IF ft.entries[i].flow.tuple.src_ip # 0
    THEN ScanFrom(ft, i + 1, Append(out, ft.entries[i].flow))
    ELSE ScanFrom(ft, i + 1, out)

\* flows_ok: the caller passed both output pointers.  The array handed back
\* has count elements, of which the first Len(filled) were written.
flow_table_get_all(flows_ok, malloc_ok) ==
    IF ~flows_ok
    THEN /\ call' = [op |-> "flow_table_get_all", ret |-> 0 - 1,
                     count |-> 0, filled |-> <<>>]
         /\ UNCHANGED <<dpiVars, captureVars>>
    ELSE /\ call' = [op |-> "flow_table_get_all",
                     ret |-> IF malloc_ok THEN 0 ELSE 0 - 1,
                     count |-> flow_table.count,
                     filled |-> IF malloc_ok THEN ScanFrom(flow_table, 0, <<>>)
                                ELSE <<>>]
         /\ UNCHANGED <<dpiVars, captureVars>>

capture_flow_get_all(flows_ok, malloc_ok) ==
    IF ~flows_ok \/ ~capture.flow_enabled
    THEN /\ call' = [op |-> "flow_table_get_all", ret |-> 0 - 1,
                     count |-> 0, filled |-> <<>>]
         /\ UNCHANGED <<dpiVars, captureVars>>
    ELSE flow_table_get_all(flows_ok, malloc_ok)

(* ---------------- packet capture: session life cycle ---------------- *)
DEFAULT_FLOW_TABLE_SIZE == 100000

\* the process died inside a capture call
Crashed == capture.crashed

\* an access to memory or to a lock the session no longer owns is recorded
\* in faults; what the process does next is not defined: it goes on or dies
Touch(cap, faults, dies) ==
    [cap EXCEPT !.faults = @ \cup faults,
                !.crashed = IF faults = {} THEN @ ELSE dies]

capture_start ==
    /\ capture' = [capture EXCEPT !.is_running = TRUE]
    /\ call' = [op |-> "capture_start", ret |-> 0]
    /\ UNCHANGED <<dpiVars, ring_buffer, flow_table, caller, capture_log>>

\* the body of capture_stop on a session record
Stopped(cap) == [cap EXCEPT !.is_running = FALSE]

capture_stop ==
    /\ capture' = Stopped(capture)
    /\ call' = [op |-> "capture_stop", ret |-> 0]
    /\ UNCHANGED <<dpiVars, ring_buffer, flow_table, caller, capture_log>>

\* the consumer side is a stub: it reports that no packet is available and
\* reads nothing from the ring
capture_poll(session_ok, callback_ok) ==
    /\ call' = [op |-> "capture_poll", session_ok |-> session_ok,
                callback_ok |-> callback_ok,
                ret |-> IF session_ok /\ callback_ok THEN 0 ELSE 0 - 1]
    /\ UNCHANGED <<dpiVars, captureVars>>

capture_flow_enable(table_size, idle_timeout_sec, calloc_ok) ==
    LET size == IF table_size = 0 THEN DEFAULT_FLOW_TABLE_SIZE ELSE table_size
    IN IF ~calloc_ok
       THEN /\ flow_table' = [flow_table EXCEPT !.entries = NULL]
            /\ capture' = [capture EXCEPT
                              !.leaked = IF flow_table.entries = NULL THEN @ ELSE @ + 1]
            /\ call' = [op |-> "capture_flow_enable", table_size |-> table_size,
                        ret |-> 0 - 1]
            /\ UNCHANGED <<dpiVars, ring_buffer, caller, capture_log>>
       ELSE /\ flow_table' = [entries |-> [i \in 0..(size - 1) |-> ZeroEntry],
                              size |-> size, count |-> 0]
            /\ capture' = [capture EXCEPT
                              !.flow_enabled = TRUE,
                              !.flow_lock = "init",
                              !.leaked = IF flow_table.entries = NULL THEN @ ELSE @ + 1]
            /\ call' = [op |-> "capture_flow_enable", table_size |-> table_size,
                        ret |-> 0]
            /\ UNCHANGED <<dpiVars, ring_buffer, caller, capture_log>>

\* the body of capture_flow_disable: [cap, ft] afterwards
FlowDisabled(cap, ft) ==
    IF ft.entries = NULL
    THEN [cap |-> [cap EXCEPT !.flow_enabled = FALSE], ft |-> ft]
    ELSE [cap |-> [cap EXCEPT !.flow_enabled = FALSE, !.flow_lock = "destroyed"],
          ft |-> [ft EXCEPT !.entries = NULL]]

capture_flow_disable ==
    /\ capture' = FlowDisabled(capture, flow_table).cap
    /\ flow_table' = FlowDisabled(capture, flow_table).ft
    /\ call' = [op |-> "capture_flow_disable", ret |-> 0]
    /\ UNCHANGED <<dpiVars, ring_buffer, caller, capture_log>>

\* what capture_cleanup touches that is no longer valid to touch
CleanupFaults(cap) ==
    (IF cap.session = "freed"
     THEN {"session read after free", "free(session) twice"} ELSE {})
    \cup (IF cap.session_lock = "destroyed"
          THEN {"session_lock used after destroy"} ELSE {})
    \cup (IF cap.ring_lock = "destroyed"
          THEN {"ring lock destroyed twice"} ELSE {})
    \cup (IF cap.ring_map = "unmapped"
          THEN {"munmap of an unmapped buffer"} ELSE {})
    \cup {"free(&session->ring_buffer): not a malloc pointer"}

capture_cleanup(session_ok, dies) ==
    IF ~session_ok
    THEN /\ call' = [op |-> "capture_cleanup", session_ok |-> session_ok]
         /\ UNCHANGED <<dpiVars, captureVars>>
    ELSE
    LET d == FlowDisabled(Stopped(capture), flow_table)
        released == [d.cap EXCEPT !.ring_lock = "destroyed",
                                  !.ring_map = "unmapped",
                                  !.session_lock = "destroyed",
                                  !.session = "freed",
                                  !.cleanups = @ + 1]
    IN /\ capture' = Touch(released, CleanupFaults(capture), dies)
       /\ flow_table' = d.ft
       /\ call' = [op |-> "capture_cleanup", session_ok |-> session_ok]
       /\ UNCHANGED <<dpiVars, ring_buffer, caller, capture_log>>

(* ---------------- inputs explored ---------------- *)
\* TCP flow 10.0.0.1:sp -> 10.0.0.2:dp
Flow(sp, dp) ==
    [src_ip |-> 167772161, dst_ip |-> 167772162, src_port |-> sp, dst_port |-> dp,
     protocol |-> 6]

PL_HTTP_GET == Payload(<<71, 69, 84, 32, 47, 105, 110, 100, 101, 120, 32, 72, 84, 84, 80, 47, 49, 46, 49, 13, 10, 72, 111, 115, 116, 58, 32, 120, 13, 10, 13, 10>>, 32)
PL_HTTP_UA == Payload(<<71, 69, 84, 32, 47, 32, 72, 84, 84, 80, 47, 49, 46, 49, 13, 10, 85, 115, 101, 114, 45, 65, 103, 101, 110, 116, 58, 32, 122, 13, 10>>, 31)
PL_HTTP_BIG == Payload(<<80, 79, 83, 84, 32, 47, 117, 32>>, 8200)
PL_GET_SLASH == Payload(<<71, 69, 84, 47, 105, 110, 100, 101, 120>>, 9)
PL_HTTP_RESP == Payload(<<72, 84, 84, 80, 47, 49, 46, 49, 32, 52, 48, 52, 32, 78, 70>>, 15)
PL_OPTIONS7 == Payload(<<79, 80, 84, 73, 79, 78, 83>>, 7)
PL_TLS5 == Payload(<<22, 3, 3, 0, 32>>, 5)
PL_TLS4 == Payload(<<22, 3, 3, 0>>, 4)
PL_TLS12 == Payload(<<22, 3, 3, 0, 32, 1, 0, 0, 28, 3, 3, 7>>, 12)
PL_TLS_ALERT == Payload(<<21, 3, 1, 0, 2, 2, 40>>, 7)
PL_TLS_APP == Payload(<<23, 3, 4, 0, 1, 9>>, 6)
PL_TLS_BADVER == Payload(<<22, 3, 5, 0, 32>>, 5)
PL_DNS_QUERY == Payload(<<18, 52, 1, 0, 0, 1, 0, 0, 0, 0, 0, 0>>, 12)
PL_DNS_RESP == Payload(<<171, 205, 129, 131, 0, 1, 0, 0, 0, 0, 0, 0>>, 12)
PL_SMTP_220 == Payload(<<50, 50, 48, 32, 114, 101, 97, 100, 121>>, 9)
PL_SMTP_EHLO == Payload(<<69, 72, 76, 79, 32, 97, 46, 98>>, 8)
PL_SMB == Payload(<<255, 83, 77, 66>>, 4)
PL_SMB2 == Payload(<<254, 83, 77, 66, 120, 121>>, 6)
PL_OPAQUE == Payload(<<120, 121, 122>>, 3)
PL_EMPTY == Payload(<<>>, 0)

\* what the byte after the packet buffer may hold: NUL or a space
OverBytes == {0, 32}

\* which allocations of one dpi_process_packet call succeed
MemAllOk == [session |-> TRUE, http |-> TRUE, dns |-> TRUE, tls |-> TRUE, anomaly |-> TRUE]
MemOutcomes ==
    {MemAllOk,
     [MemAllOk EXCEPT !.session = FALSE],
     [MemAllOk EXCEPT !.http = FALSE],
     [MemAllOk EXCEPT !.dns = FALSE],
     [MemAllOk EXCEPT !.tls = FALSE],
     [MemAllOk EXCEPT !.anomaly = FALSE]}

\* the caller's clock: packets carry increasing timestamps
Now == 1000 * (stats.packets_processed + 1)

FlowsDpi == {Flow(52344, 80), Flow(52344, 8888)}
PayloadsDpi == {PL_HTTP_GET, PL_TLS5, PL_OPAQUE, PL_EMPTY}

\* <<flow, packet_data>> argument pairs; a NULL stands for a null pointer
PacketsDpi ==
    (FlowsDpi \X PayloadsDpi) \cup {<<NULL, PL_OPAQUE>>, <<Flow(52344, 80), NULL>>}

Ports == {80, 8080, 443, 53, 25, 587, 465, 21, 990, 445, 22, 23, 161, 8888, 52344}
FlowsAll == {Flow(52344, dp) : dp \in Ports} \cup {Flow(sp, 52344) : sp \in Ports}
PayloadsAll ==
    {PL_HTTP_GET, PL_HTTP_UA, PL_HTTP_BIG, PL_GET_SLASH, PL_HTTP_RESP, PL_OPTIONS7,
     PL_TLS5, PL_TLS4, PL_TLS12, PL_TLS_ALERT, PL_TLS_APP, PL_TLS_BADVER,
     PL_DNS_QUERY, PL_DNS_RESP, PL_SMTP_220, PL_SMTP_EHLO, PL_SMB, PL_SMB2,
     PL_OPAQUE, PL_EMPTY}

PacketsAll == FlowsAll \X PayloadsAll

Rule(type, pattern, protocol, lo, hi, enabled) ==
    [rule_id |-> 0, type |-> type, pattern |-> pattern, protocol |-> protocol,
     port_range_start |-> lo, port_range_end |-> hi, enabled |-> enabled]

Pattern(str) == [str |-> str]

RULE_CONTENT_GET == Rule(DPI_RULE_CONTENT, Pattern(<<71, 69, 84>>), DPI_PROTO_UNKNOWN, 0, 0, 1)
RULE_REGEX_EVIL == Rule(DPI_RULE_REGEX, Pattern(<<101, 118, 105, 108>>), DPI_PROTO_UNKNOWN, 0, 0, 1)
RULE_REGEX_BAD == Rule(DPI_RULE_REGEX, Pattern(<<40, 101>>), DPI_PROTO_UNKNOWN, 0, 0, 1)
RULE_REGEX_NOPAT == Rule(DPI_RULE_REGEX, NULL, DPI_PROTO_HTTP, 80, 80, 1)

RulesAll == {RULE_CONTENT_GET, RULE_REGEX_EVIL, RULE_REGEX_BAD, RULE_REGEX_NOPAT}

(* ---------------- inputs of the capture session ---------------- *)
\* the caller's FlowRecord before any lookup filled it
Untouched == [untouched |-> TRUE]

\* number of flow_table_update calls made so far
UpdatesMade ==
    LET RECURSIVE Sum(_)
        Sum(S) == IF S = {} THEN 0
                  ELSE LET x == CHOOSE x \in S : TRUE
                       IN capture_log.updates[x].n + Sum(S \ {x})
    IN Sum(DOMAIN capture_log.updates)

(* ---------------- initial state: no call in progress ---------------- *)
ThreadsInit ==
    /\ threads = [t \in Threads |-> Idle]
    /\ locks = [l \in LockNames |-> FreeLock]

(* ---------------- initial state: capture_init ---------------- *)
CaptureInit ==
    /\ ring_buffer = [size |-> RingSize, write_pos |-> 0, read_pos |-> 0,
                      buffer |-> [i \in 0..(RingSize - 1) |-> 0]]
    /\ flow_table = [entries |-> NULL, size |-> 0, count |-> 0]
    /\ capture = [session |-> "live", is_running |-> FALSE, flow_enabled |-> FALSE,
                  session_lock |-> "init", ring_lock |-> "init", ring_map |-> "mapped",
                  flow_lock |-> "none", leaked |-> 0, cleanups |-> 0,
                  faults |-> {}, crashed |-> FALSE]
    /\ caller = [packet_id |-> 0, flow |-> Untouched]
    /\ capture_log = [appended |-> <<>>, done |-> <<>>,
                      updates |-> [x \in TuplesFlow |-> [n |-> 0, bytes |-> 0]]]

(* ---------------- initial state: dpi_init ---------------- *)
ZeroStats ==
    [packets_processed |-> 0, bytes_processed |-> 0, flows_created |-> 0,
     flows_terminated |-> 0, active_sessions |-> 0, alerts_generated |-> 0,
     anomalies_detected |-> 0, http_packets |-> 0, dns_packets |-> 0,
     tls_packets |-> 0, smtp_packets |-> 0, smb_packets |-> 0]

Init ==
    /\ config \in [enable_anomaly_detection : BOOLEAN, max_concurrent_sessions : {MaxSessions}]
    /\ sessions = <<>>
    /\ next_session_id = 1
    /\ rules = <<>>
    /\ compiled_regex = [k \in 1..MaxRules |-> ZeroRegex]
    /\ alerts = [queue |-> <<>>, head |-> 0, tail |-> 0, capacity |-> DPI_MAX_ALERTS]
    /\ next_alert_id = 1
    /\ stats = ZeroStats
    /\ regex_made = 0
    /\ regex_freed = <<>>
    /\ issued = <<>>
    /\ created = <<>>
    /\ CaptureInit
    /\ ThreadsInit
    /\ call = [op |-> "dpi_init"]

(* ---------------- actions ---------------- *)
\* the caller marks packets sent from a well-known port as responses
IsResponse(flow) == IF flow # NULL /\ flow.src_port < 1024 THEN 1 ELSE 0

ProcessPacket(I, O, M) ==
    \E in \in I, over \in O, mem \in M :
        /\ ~Aborted
        /\ stats.packets_processed < MaxPackets
        /\ dpi_process_packet(in[1], in[2], Now, IsResponse(in[1]), over, mem)
        /\ UNCHANGED threadVars

TerminateSession(F) ==
    \E flow \in F : ~Aborted /\ dpi_terminate_session(flow) /\ UNCHANGED threadVars

AddRule(R) ==
    \E rule \in R \cup {NULL} :
        /\ ~Aborted
        /\ ~ShutDown
        /\ Len(issued) < MaxAdds
        /\ dpi_add_rule(rule)
        /\ UNCHANGED threadVars

RemoveRule ==
    \E rule_id \in 0..(MaxRules + 1) :
        ~Aborted /\ ~ShutDown /\ dpi_remove_rule(rule_id) /\ UNCHANGED threadVars

Shutdown ==
    \E dies \in BOOLEAN :
        ~Aborted /\ ~ShutDown /\ dpi_shutdown(dies) /\ UNCHANGED threadVars

GetAlerts ==
    \E buf_ok \in BOOLEAN, max_alerts \in 0..2, clear_after_read \in BOOLEAN :
        ~Aborted /\ dpi_get_alerts(buf_ok, max_alerts, clear_after_read) /\ UNCHANGED threadVars

\* the DPI engine: sessions, classification, alert drain
Next ==
    \/ ProcessPacket(PacketsDpi, {0}, MemOutcomes)
    \/ TerminateSession(FlowsDpi)

Spec == Init /\ [][Next]_vars

\* the rule engine alone
NextRules ==
    \/ AddRule(RulesAll)
    \/ RemoveRule
    \/ Shutdown

SpecRules == Init /\ [][NextRules]_vars

\* dpi_add_rule called from several threads: the capacity test, the wait for
\* the rules lock, and the body under the lock
RulesRace == {RULE_CONTENT_GET, RULE_REGEX_EVIL}

AddRuleEnter(t) ==
    \E rule \in RulesRace \cup {NULL} :
        /\ At(t, "none", "idle")
        /\ Len(issued) <= MaxAdds
        /\ IF AddRuleRefused(rule)
           THEN /\ call' = [op |-> "dpi_add_rule", rule |-> rule, ret |-> 0]
                /\ UNCHANGED threads
           ELSE /\ threads' = Goto(t, "dpi_add_rule", "wrlock", rule, NULL)
                /\ UNCHANGED call
        /\ UNCHANGED <<captureVars, dpiVars, locks>>

AddRuleLock(t) ==
    /\ At(t, "dpi_add_rule", "wrlock")
    /\ CanWrLock("rules")
    /\ locks' = WrLocked("rules", t)
    /\ threads' = Goto(t, "dpi_add_rule", "locked", threads[t].arg, NULL)
    /\ UNCHANGED <<captureVars, dpiVars, call>>

AddRuleBody(t) ==
    /\ At(t, "dpi_add_rule", "locked")
    /\ add_rule_locked(threads[t].arg)
    /\ locks' = Unlocked("rules", t)
    /\ threads' = Return(t)

NextAddRace ==
    \/ \E t \in Threads : AddRuleEnter(t)
    \/ \E t \in Threads : AddRuleLock(t)
    \/ \E t \in Threads : AddRuleBody(t)

SpecAddRace == Init /\ [][NextAddRace]_vars

\* classification of the first packet of a session, over every payload and port
FirstPacket ==
    \E in \in PacketsAll, over \in OverBytes :
        /\ stats.packets_processed = 0
        /\ dpi_process_packet(in[1], in[2], Now, IsResponse(in[1]), over, MemAllOk)
        /\ UNCHANGED threadVars

NextClassify ==
    \/ FirstPacket

SpecClassify == Init /\ [][NextClassify]_vars

\* rules, packets and the alert drain together
FlowsEngine == {Flow(52344, 80)}
PacketsEngine == FlowsEngine \X {PL_HTTP_GET, PL_OPAQUE}
RulesEngine == {RULE_CONTENT_GET, RULE_REGEX_BAD}

NextEngine ==
    \/ AddRule(RulesEngine)
    \/ RemoveRule
    \/ ProcessPacket(PacketsEngine, {0}, {MemAllOk})
    \/ TerminateSession(FlowsEngine)
    \/ GetAlerts

SpecEngine == Init /\ [][NextEngine]_vars

\* dpi_classify_protocol and dpi_get_protocol_data called while other threads
\* process packets and terminate sessions.  dpi_get_session searches under
\* the read lock and hands back the pointer after releasing it; the pointer
\* is modelled by the session's id.
ReaderOps == {"dpi_classify_protocol", "dpi_get_protocol_data"}

ReaderGetSession(t) ==
    \E op \in ReaderOps, flow \in FlowsEngine :
        /\ At(t, "none", "idle")
        /\ CanRdLock("sessions")
        /\ threads' = Goto(t, op, "use", flow,
                           IF dpi_get_session(flow) = NULL THEN NULL
                           ELSE [session_id |-> dpi_get_session(flow).session_id])
        /\ UNCHANGED <<captureVars, dpiVars, locks, call>>

\* the session the pointer refers to, NULL once it has been freed
Pointee(ptr) ==
    LET live == {i \in 1..Len(sessions) : sessions[i].session_id = ptr.session_id}
    IN IF live = {} THEN NULL ELSE sessions[CHOOSE i \in live : TRUE]

\* session->protocol, session->http_data: a read through the pointer
ReaderUse(t) ==
    /\ threads[t].op \in ReaderOps
    /\ threads[t].pc = "use"
    /\ LET ptr == threads[t].local
       IN call' = [op |-> threads[t].op, flow |-> threads[t].arg,
                   found |-> ptr # NULL,
                   freed |-> ptr # NULL /\ Pointee(ptr) = NULL]
    /\ threads' = Return(t)
    /\ UNCHANGED <<captureVars, dpiVars, locks>>

NextReaders ==
    \/ ProcessPacket(PacketsEngine, {0}, {MemAllOk})
    \/ TerminateSession(FlowsEngine)
    \/ \E t \in Threads : ReaderGetSession(t)
    \/ \E t \in Threads : ReaderUse(t)

SpecReaders == Init /\ [][NextReaders]_vars

\* the session table with more tuples than it has room for
FlowsTable == FlowsDpi \cup {Flow(40000, 443)}
PacketsTable == FlowsTable \X {PL_HTTP_GET, PL_OPAQUE}
MemTable == {MemAllOk, [MemAllOk EXCEPT !.session = FALSE]}

NextTable ==
    \/ ProcessPacket(PacketsTable, {0}, MemTable)
    \/ TerminateSession(FlowsTable)

SpecTable == Init /\ [][NextTable]_vars

\* one HTTP session on a non-standard port, fed a long run of packets
FlowsAnomaly == {Flow(52344, 8888)}
PacketsAnomaly == FlowsAnomaly \X {PL_HTTP_GET, PL_HTTP_UA}
MemAnomaly == {MemAllOk, [MemAllOk EXCEPT !.anomaly = FALSE]}

BurstPacket ==
    \E in \in PacketsAnomaly, mem \in MemAnomaly :
        /\ stats.packets_processed < MaxBurst
        /\ dpi_process_packet(in[1], in[2], Now, IsResponse(in[1]), 0, mem)
        /\ UNCHANGED threadVars

NextAnomaly ==
    \/ BurstPacket

SpecAnomaly == Init /\ [][NextAnomaly]_vars

\* the alert queue: a producer and the drain, on a ring whose head has
\* already advanced to one of RingStarts
RingStarts == {0, DPI_MAX_ALERTS - 2}

InitAlerts ==
    /\ config \in [enable_anomaly_detection : BOOLEAN, max_concurrent_sessions : {MaxSessions}]
    /\ sessions = <<>>
    /\ next_session_id = 1
    /\ rules = <<>>
    /\ compiled_regex = [k \in 1..MaxRules |-> ZeroRegex]
    /\ \E h \in RingStarts :
          /\ alerts = [queue |-> <<>>, head |-> h, tail |-> h, capacity |-> DPI_MAX_ALERTS]
          /\ next_alert_id = h + 1
    /\ stats = ZeroStats
    /\ regex_made = 0
    /\ regex_freed = <<>>
    /\ issued = <<>>
    /\ created = <<>>
    /\ CaptureInit
    /\ ThreadsInit
    /\ call = [op |-> "dpi_init"]

PushAlert ==
    \E rule_id \in 1..2 :
        /\ Cardinality(DOMAIN alerts.queue) < MaxQueued
        /\ alert_push(rule_id)
        /\ UNCHANGED threadVars

NextAlerts ==
    \/ PushAlert
    \/ GetAlerts

SpecAlerts == InitAlerts /\ [][NextAlerts]_vars

\* the ring buffer under a single producer
RingAppend ==
    \E len \in 0..(RingSize + 1), byte \in {1, 2} :
        /\ Len(capture_log.appended) < MaxAppends
        /\ ~(call.op = "ringbuffer_append" /\ call.ret = UINT32_MAX /\ call.len = len)
        /\ ringbuffer_append([i \in 1..len |-> byte], len)
        /\ UNCHANGED threadVars

CapturePoll ==
    \E session_ok, callback_ok \in BOOLEAN :
        /\ capture.session = "live"
        /\ capture_poll(session_ok, callback_ok)
        /\ UNCHANGED threadVars

NextRing ==
    \/ RingAppend
    \/ CapturePoll

SpecRing == Init /\ [][NextRing]_vars

\* the flow table, from the state capture_flow_enable leaves
InitFlow ==
    /\ config \in [enable_anomaly_detection : {FALSE}, max_concurrent_sessions : {MaxSessions}]
    /\ sessions = <<>>
    /\ next_session_id = 1
    /\ rules = <<>>
    /\ compiled_regex = [k \in 1..MaxRules |-> ZeroRegex]
    /\ alerts = [queue |-> <<>>, head |-> 0, tail |-> 0, capacity |-> DPI_MAX_ALERTS]
    /\ next_alert_id = 1
    /\ stats = ZeroStats
    /\ regex_made = 0
    /\ regex_freed = <<>>
    /\ issued = <<>>
    /\ created = <<>>
    /\ ring_buffer = [size |-> RingSize, write_pos |-> 0, read_pos |-> 0,
                      buffer |-> [i \in 0..(RingSize - 1) |-> 0]]
    /\ flow_table = [entries |-> [i \in 0..(FlowTableSize - 1) |-> ZeroEntry],
                     size |-> FlowTableSize, count |-> 0]
    /\ capture = [session |-> "live", is_running |-> TRUE, flow_enabled |-> TRUE,
                  session_lock |-> "init", ring_lock |-> "init", ring_map |-> "mapped",
                  flow_lock |-> "init", leaked |-> 0, cleanups |-> 0,
                  faults |-> {}, crashed |-> FALSE]
    /\ caller = [packet_id |-> 0, flow |-> Untouched]
    /\ capture_log = [appended |-> <<>>, done |-> <<>>,
                      updates |-> [x \in TuplesFlow |-> [n |-> 0, bytes |-> 0]]]
    /\ ThreadsInit
    /\ call = [op |-> "capture_flow_enable", table_size |-> FlowTableSize, ret |-> 0]

FlowUpdate ==
    \E tuple \in TuplesFlow \cup {NULL}, pad \in PadBytes, payload_len \in PayloadLens :
        /\ UpdatesMade < MaxUpdates
        /\ caller.flow = Untouched
        /\ flow_table_update(tuple, pad, payload_len, UpdatesMade + 1,
                             1000 * (UpdatesMade + 1))
        /\ UNCHANGED threadVars

FlowLookup ==
    \E tuple \in TuplesFlow \cup {NULL}, pad \in PadBytes, flow_ok \in BOOLEAN :
        /\ caller.flow = Untouched
        /\ capture_flow_lookup(tuple, pad, flow_ok)
        /\ UNCHANGED threadVars

NextFlow ==
    \/ FlowUpdate
    \/ FlowLookup

SpecFlow == InitFlow /\ [][NextFlow]_vars

\* updates and whole-table scans
FlowGetAll ==
    \E flows_ok, malloc_ok \in BOOLEAN :
        /\ capture.session = "live"
        /\ capture_flow_get_all(flows_ok, malloc_ok)
        /\ UNCHANGED threadVars

NextScan ==
    \/ FlowUpdate
    \/ FlowGetAll

SpecScan == InitFlow /\ [][NextScan]_vars

\* the life cycle of the capture session
CaptureStart ==
    ~Crashed /\ capture.session = "live" /\ capture_start /\ UNCHANGED threadVars

CaptureStop ==
    ~Crashed /\ capture.session = "live" /\ capture_stop /\ UNCHANGED threadVars

CaptureFlowEnable ==
    \E calloc_ok \in BOOLEAN :
        /\ ~Crashed
        /\ capture.session = "live"
        /\ capture.leaked < 1
        /\ capture_flow_enable(FlowTableSize, 0, calloc_ok)
        /\ UNCHANGED threadVars

CaptureFlowDisable ==
    ~Crashed /\ capture.session = "live" /\ capture_flow_disable /\ UNCHANGED threadVars

CaptureCleanup ==
    \E session_ok \in BOOLEAN, dies \in BOOLEAN :
        /\ ~Crashed
        /\ capture.cleanups < MaxCleanups
        /\ capture_cleanup(session_ok, dies)
        /\ UNCHANGED threadVars

NextCapture ==
    \/ CaptureStart
    \/ CaptureStop
    \/ CaptureFlowEnable
    \/ CaptureFlowDisable
    \/ CaptureCleanup

SpecCapture == Init /\ [][NextCapture]_vars

\* capture_flow_lookup and capture_flow_get_all called while other threads
\* enable and disable flow metering.  The readers test flow_enabled without
\* a lock, then take the table's read lock and read its entries.
FlowReaderOps == {"capture_flow_lookup", "capture_flow_get_all"}

TuplesReader == {Tuple(52344, 0), ZeroTuple}

LockAfterDestroy == "flow_table.lock used after pthread_rwlock_destroy"

EntriesAfterFree == "flow_table.entries read after free"

\* a failed calloc in capture_flow_enable leaves entries NULL
EntriesNull == "flow_table.entries is NULL"

FlowReaderEnter(t) ==
    \E op \in FlowReaderOps, tuple \in TuplesReader :
        /\ ~Crashed
        /\ capture.session = "live"
        /\ At(t, "none", "idle")
        /\ IF ~capture.flow_enabled
           THEN /\ call' = [op |-> op, ret |-> 0 - 1]
                /\ UNCHANGED threads
           ELSE /\ threads' = Goto(t, op, "rdlock", tuple, NULL)
                /\ UNCHANGED call
        /\ UNCHANGED <<dpiVars, captureVars, locks>>

FlowReaderLock(t) ==
    \E dies \in BOOLEAN :
        /\ ~Crashed
        /\ threads[t].op \in FlowReaderOps
        /\ threads[t].pc = "rdlock"
        /\ CanRdLock("flow_lock")
        /\ locks' = RdLocked("flow_lock", t)
        /\ capture' = IF capture.flow_lock = "init" THEN capture
                      ELSE Touch(capture, {LockAfterDestroy}, dies)
        /\ threads' = Goto(t, threads[t].op, "read", threads[t].arg, NULL)
        /\ UNCHANGED <<dpiVars, ring_buffer, flow_table, caller, capture_log, call>>

FlowReaderRead(t) ==
    \E dies \in BOOLEAN :
        /\ ~Crashed
        /\ threads[t].op \in FlowReaderOps
        /\ threads[t].pc = "read"
        /\ IF flow_table.entries = NULL
           THEN /\ capture' = Touch(capture,
                                     {IF capture.flow_lock = "destroyed"
                                      THEN EntriesAfterFree ELSE EntriesNull}, dies)
                /\ call' = [op |-> threads[t].op, ret |-> 0 - 1]
                /\ UNCHANGED <<dpiVars, ring_buffer, flow_table, caller, capture_log>>
           ELSE IF threads[t].op = "capture_flow_lookup"
           THEN flow_table_lookup(threads[t].arg, 0, TRUE)
           ELSE flow_table_get_all(TRUE, TRUE)
        /\ locks' = Unlocked("flow_lock", t)
        /\ threads' = Return(t)

NextFlowReaders ==
    \/ CaptureFlowEnable
    \/ CaptureFlowDisable
    \/ \E t \in Threads : FlowReaderEnter(t)
    \/ \E t \in Threads : FlowReaderLock(t)
    \/ \E t \in Threads : FlowReaderRead(t)

SpecFlowReaders == InitFlow /\ [][NextFlowReaders]_vars

\* flow_table_update called from several threads on one table.  The hash and
\* the slot are computed before the lock; the slot is read and written back
\* while the caller holds the table's write lock.
TuplesUpd == {Tuple(52344, 0), Tuple(52345, 1)}

UpdatesEntered ==
    UpdatesMade + Cardinality({t \in Threads : threads[t].op = "flow_table_update"})

\* the callers pass tuples whose padding byte is zero
UpdEnter(t) ==
    \E tuple \in TuplesUpd \cup {NULL}, pad \in {0}, payload_len \in PayloadLens :
        /\ At(t, "none", "idle")
        /\ UpdatesEntered < MaxUpdates
        /\ IF tuple = NULL
           THEN /\ call' = [op |-> "flow_table_update", tuple |-> tuple,
                            payload_len |-> payload_len, ret |-> 0 - 1]
                /\ UNCHANGED threads
           ELSE LET flow_id == FlowIdOf(tuple, pad)
                IN /\ threads' = Goto(t, "flow_table_update", "wrlock",
                                      [tuple |-> tuple, payload_len |-> payload_len,
                                       packet_id |-> UpdatesEntered + 1,
                                       timestamp_ns |-> 1000 * (UpdatesEntered + 1)],
                                      [flow_id |-> flow_id,
                                       idx |-> SlotOf(flow_id, flow_table.size)])
                   /\ UNCHANGED call
        /\ UNCHANGED <<dpiVars, captureVars, locks>>

UpdLock(t) ==
    /\ At(t, "flow_table_update", "wrlock")
    /\ CanWrLock("flow_lock")
    /\ locks' = WrLocked("flow_lock", t)
    /\ threads' = Goto(t, "flow_table_update", "read", threads[t].arg, threads[t].local)
    /\ UNCHANGED <<dpiVars, captureVars, call>>

\* entry = &ft->entries[idx] and the test of its src_ip
UpdRead(t) ==
    /\ At(t, "flow_table_update", "read")
    /\ threads' = Goto(t, "flow_table_update", "write", threads[t].arg,
                       [flow_id |-> threads[t].local.flow_id,
                        idx |-> threads[t].local.idx,
                        entry |-> flow_table.entries[threads[t].local.idx],
                        count |-> flow_table.count])
    /\ UNCHANGED <<dpiVars, captureVars, locks, call>>

\* the stores of either branch, and the two time stamps
UpdWrite(t) ==
    LET a == threads[t].arg
        l == threads[t].local
    IN /\ At(t, "flow_table_update", "write")
       /\ flow_table' = [flow_table EXCEPT
                             !.entries[l.idx] =
                                 UpdatedEntry(l.entry, a.tuple, l.flow_id, a.payload_len,
                                              a.packet_id, a.timestamp_ns),
                             !.count = IF SlotIsFree(l.entry) THEN l.count + 1 ELSE l.count]
       /\ capture_log' = [capture_log EXCEPT
                             !.done = Append(@, [thread |-> t, arg |-> a,
                                                 flow_id |-> l.flow_id, idx |-> l.idx])]
       /\ threads' = Goto(t, "flow_table_update", "unlock", a, l)
       /\ UNCHANGED <<dpiVars, ring_buffer, capture, caller, locks, call>>

UpdUnlock(t) ==
    LET a == threads[t].arg
    IN /\ At(t, "flow_table_update", "unlock")
       /\ locks' = Unlocked("flow_lock", t)
       /\ threads' = Return(t)
       /\ capture_log' = [capture_log EXCEPT
                             !.updates[a.tuple] = [n |-> @.n + 1,
                                                   bytes |-> @.bytes + a.payload_len]]
       /\ call' = [op |-> "flow_table_update", tuple |-> a.tuple,
                   payload_len |-> a.payload_len, ret |-> 0]
       /\ UNCHANGED <<dpiVars, ring_buffer, flow_table, capture, caller>>

NextUpdaters ==
    \/ \E t \in Threads : UpdEnter(t)
    \/ \E t \in Threads : UpdLock(t)
    \/ \E t \in Threads : UpdRead(t)
    \/ \E t \in Threads : UpdWrite(t)
    \/ \E t \in Threads : UpdUnlock(t)

SpecUpdaters == InitFlow /\ [][NextUpdaters]_vars

\* The lock calls of every operation, in program order, run by several
\* threads on one engine and one capture session.  A path that returns
\* early makes a prefix of these calls followed by the matching unlock, or
\* none of them.
LockOps ==
    {"dpi_process_packet", "dpi_add_rule", "dpi_remove_rule", "dpi_get_alerts",
     "dpi_get_stats", "dpi_get_session", "dpi_classify_protocol",
     "dpi_get_protocol_data", "dpi_terminate_session", "dpi_shutdown",
     "ringbuffer_append", "flow_table_update", "capture_flow_lookup",
     "capture_flow_get_all", "capture_start", "capture_stop", "capture_get_stats",
     "capture_flow_enable", "capture_flow_disable", "capture_netflow_enable",
     "capture_set_encryption"}

Critical(kind, l) == <<[kind |-> kind, lock |-> l], [kind |-> "unlock", lock |-> l]>>

\* a variant in which the flow readers take session_lock inside the table's
\* lock and capture_flow_disable takes the table's lock inside session_lock
LockProgramNested(op) ==
    CASE op = "capture_flow_lookup" ->
             <<[kind |-> "rdlock", lock |-> "flow_lock"]>>
             \o Critical("wrlock", "session_lock")
             \o <<[kind |-> "unlock", lock |-> "flow_lock"]>>
      [] op = "capture_flow_disable" ->
             <<[kind |-> "wrlock", lock |-> "session_lock"]>>
             \o Critical("wrlock", "flow_lock")
             \o <<[kind |-> "unlock", lock |-> "session_lock"]>>
      [] OTHER -> Critical("wrlock", "session_lock")

LockProgram(op) ==
    CASE op = "dpi_process_packet" ->
             Critical("wrlock", "sessions") \o Critical("wrlock", "stats")
      [] op = "dpi_add_rule" -> Critical("wrlock", "rules")
      [] op = "dpi_remove_rule" -> Critical("wrlock", "rules")
      [] op = "dpi_get_alerts" -> Critical("wrlock", "alerts")
      [] op = "dpi_get_stats" -> Critical("rdlock", "stats")
      [] op \in {"dpi_get_session", "dpi_classify_protocol", "dpi_get_protocol_data"} ->
             Critical("rdlock", "sessions")
      [] op = "dpi_terminate_session" -> Critical("wrlock", "sessions")
      [] op = "dpi_shutdown" ->
             Critical("wrlock", "sessions") \o Critical("wrlock", "rules")
      [] op = "ringbuffer_append" -> Critical("wrlock", "ring_lock")
      [] op = "flow_table_update" -> Critical("wrlock", "flow_lock")
      [] op \in {"capture_flow_lookup", "capture_flow_get_all"} ->
             Critical("rdlock", "flow_lock")
      [] op \in {"capture_start", "capture_stop", "capture_get_stats",
                 "capture_flow_enable", "capture_flow_disable",
                 "capture_netflow_enable", "capture_set_encryption"} ->
             Critical("wrlock", "session_lock")

\* the locks thread t holds
Held(t) == {l \in LockNames : locks[l].writer = t \/ t \in locks[l].readers}

\* the lock call thread t is about to make
NextCall(t) == LockProgram(threads[t].op)[threads[t].local]

CanLock(t) ==
    IF NextCall(t).kind = "rdlock" THEN CanRdLock(NextCall(t).lock)
    ELSE CanWrLock(NextCall(t).lock)

\* a call whose argument tests pass; one that fails them takes no lock
LockOpEnter(t) ==
    \E op \in LockOps :
        /\ At(t, "none", "idle")
        /\ threads' = Goto(t, op, "locks", NULL, 1)
        /\ UNCHANGED <<dpiVars, captureVars, locks, call>>

LockOpAcquire(t) ==
    /\ threads[t].pc = "locks"
    /\ NextCall(t).kind # "unlock"
    /\ CanLock(t)
    /\ locks' = IF NextCall(t).kind = "rdlock"
                THEN RdLocked(NextCall(t).lock, t)
                ELSE WrLocked(NextCall(t).lock, t)
    /\ threads' = [threads EXCEPT ![t].local = @ + 1]
    /\ UNCHANGED <<dpiVars, captureVars, call>>

LockOpRelease(t) ==
    /\ threads[t].pc = "locks"
    /\ NextCall(t).kind = "unlock"
    /\ locks' = Unlocked(NextCall(t).lock, t)
    /\ threads' = IF threads[t].local = Len(LockProgram(threads[t].op))
                  THEN Return(t)
                  ELSE [threads EXCEPT ![t].local = @ + 1]
    /\ UNCHANGED <<dpiVars, captureVars, call>>

NextLocks ==
    \/ \E t \in Threads : LockOpEnter(t)
    \/ \E t \in Threads : LockOpAcquire(t)
    \/ \E t \in Threads : LockOpRelease(t)

SpecLocks == InitFlow /\ [][NextLocks]_vars

(* ---------------- properties ---------------- *)
\* the session a process_packet call worked on, NULL when it has none
CallSession ==
    IF call.op = "dpi_process_packet" /\ ~call.rejected
    THEN dpi_get_session(call.flow)
    ELSE NULL

\* C1: every non-zero id dpi_add_rule returns differs from every id it
\* returned before, and no two stored rules carry the same rule_id.
C1_RuleIdsNeverReused ==
    /\ \A i, j \in 1..Len(issued) : i # j => issued[i] # issued[j]
    /\ \A i, j \in 1..Len(rules) : i # j => rules[i].rule_id # rules[j].rule_id

\* the pattern bytes occur somewhere in the packet
PatternOccurs(pat, p) ==
    \E i \in 0..(p.len - Len(pat)) :
        \A k \in 1..Len(pat) : ByteAt(p, i + k - 1, 0) = pat[k]

\* the rule is enabled and its protocol scope and port range admit the session
RuleAdmits(rule, s) ==
    /\ rule.enabled = 1
    /\ rule.protocol = DPI_PROTO_UNKNOWN \/ rule.protocol = s.protocol.protocol
    /\ \/ rule.port_range_start = 0 /\ rule.port_range_end = 0
       \/ rule.port_range_start <= s.flow.dst_port /\ s.flow.dst_port <= rule.port_range_end

\* C2: a dpi_process_packet call whose payload matches an enabled rule that
\* admits the session returns a count above 0 and leaves an alert for that
\* rule in the alert queue.
C2_MatchingRuleRaisesAlert ==
    \A i \in 1..Len(rules) :
        ( /\ CallSession # NULL
          /\ rules[i].pattern # NULL
          /\ RuleAdmits(rules[i], CallSession)
          /\ PatternOccurs(rules[i].pattern.str, call.payload) )
        => /\ call.ret > 0
           /\ alerts.head # alerts.tail
           /\ \E k \in DOMAIN alerts.queue : alerts.queue[k].rule_id = rules[i].rule_id

\* C3: once a session's protocol is a concrete tag, no step changes it.
C3_ProtocolSetOnce ==
    [][\A i \in 1..Len(sessions) : \A j \in 1..Len(sessions') :
          ( /\ sessions[i].protocol.protocol # DPI_PROTO_UNKNOWN
            /\ sessions'[j].session_id = sessions[i].session_id )
          => sessions'[j].protocol.protocol = sessions[i].protocol.protocol]_vars

\* C3 witness: a TLS record was processed on a session already classified HTTP
C3_Witness ==
    /\ CallSession # NULL
    /\ call.payload = PL_TLS5
    /\ CallSession.protocol.protocol = DPI_PROTO_HTTP
    /\ CallSession.packets_seen >= 2

\* C4: the classification cascade runs exactly once per session, on its
\* first packet with payload, whatever that run returned.
C4_CascadeRunsOnce ==
    \A i \in 1..Len(sessions) :
        sessions[i].packets_seen >= 1 => sessions[i].classify_runs = 1

\* the session with this id before the step; a fresh one when the step created it
Before(id, flow) ==
    LET hits == {i \in 1..Len(sessions) : sessions[i].session_id = id}
    IN IF hits = {} THEN NewSession(id, flow, 0)
       ELSE sessions[CHOOSE i \in hits : TRUE]

\* C5: detection_tick is written only by the call that takes the protocol
\* from UNKNOWN to a concrete tag, and then equals packets_seen.
C5_TickWrittenAtTransition ==
    [][\A j \in 1..Len(sessions') :
          LET new == sessions'[j]
              old == Before(new.session_id, new.flow)
          IN new.protocol.detection_tick # old.protocol.detection_tick
             => /\ old.protocol.protocol = DPI_PROTO_UNKNOWN
                /\ new.protocol.protocol # DPI_PROTO_UNKNOWN
                /\ new.protocol.detection_tick = new.packets_seen]_vars

\* C6: a classified session has confidence 100 after a payload dissector
\* matched and confidence 50 after the port fallback gave the protocol.
C6_ConfidenceByEvidence ==
    \A i \in 1..Len(sessions) :
        sessions[i].protocol.protocol # DPI_PROTO_UNKNOWN
        => /\ sessions[i].via = "payload" => sessions[i].protocol.confidence = 100
           /\ sessions[i].via = "port" => sessions[i].protocol.confidence = 50

\* a TLS record header: content type, version 3.1 .. 3.4, at least 5 bytes
IsTlsRecord(p) ==
    /\ p.len >= 5
    /\ p.head[1] \in {21, 22, 23}
    /\ p.head[2] = 3
    /\ p.head[3] \in 1..4

\* C7: a first payload that is a TLS record of any length >= 5 classifies
\* the session as HTTPS and records the version bytes.
C7_TlsRecordClassifiesHttps ==
    ( /\ CallSession # NULL
      /\ CallSession.packets_seen = 1
      /\ IsTlsRecord(call.payload) )
    => /\ CallSession.protocol.protocol = DPI_PROTO_HTTPS
       /\ CallSession.tls_data = [version_major |-> call.payload.head[2],
                                  version_minor |-> call.payload.head[3]]

\* the well-known port map
WellKnown ==
    [p \in {80, 8080, 443, 53, 25, 587, 465, 21, 990, 445, 22, 23, 161} |->
        CASE p \in {80, 8080} -> DPI_PROTO_HTTP
          [] p = 443 -> DPI_PROTO_HTTPS
          [] p = 53 -> DPI_PROTO_DNS
          [] p \in {25, 587} -> DPI_PROTO_SMTP
          [] p = 465 -> DPI_PROTO_SMTPS
          [] p = 21 -> DPI_PROTO_FTP
          [] p = 990 -> DPI_PROTO_FTPS
          [] p = 445 -> DPI_PROTO_SMB
          [] p = 22 -> DPI_PROTO_SSH
          [] p = 23 -> DPI_PROTO_TELNET
          [] p = 161 -> DPI_PROTO_SNMP]

\* C8: when every payload dissector declines, the protocol is the one the
\* well-known port map gives for the destination port, UNKNOWN for a port
\* outside the map.
C8_PortFallbackFollowsMap ==
    \A i \in 1..Len(sessions) :
        ( /\ sessions[i].via = "port"
          /\ sessions[i].flow.src_port \notin DOMAIN WellKnown )
        => sessions[i].protocol.protocol =
              IF sessions[i].flow.dst_port \in DOMAIN WellKnown
              THEN WellKnown[sessions[i].flow.dst_port]
              ELSE DPI_PROTO_UNKNOWN

\* C9: for a session classified P that owns a parsed record for P,
\* dpi_get_protocol_data(flow, P) returns that record.
C9_ProtocolDataReturned ==
    \A i \in 1..Len(sessions) :
        LET s == sessions[i]
        IN /\ (s.protocol.protocol = DPI_PROTO_HTTP /\ s.http_data # NULL)
              => dpi_get_protocol_data(s.flow, DPI_PROTO_HTTP) = s.http_data
           /\ (s.protocol.protocol = DPI_PROTO_DNS /\ s.dns_data # NULL)
              => dpi_get_protocol_data(s.flow, DPI_PROTO_DNS) = s.dns_data
           /\ (s.protocol.protocol = DPI_PROTO_HTTPS /\ s.tls_data # NULL)
              => dpi_get_protocol_data(s.flow, DPI_PROTO_HTTPS) = s.tls_data

\* C10: dpi_process_packet with packet_len = 0 returns 0 and changes no
\* session, no counter and no statistic.
C10_EmptyPacketNoEffect ==
    [][( /\ call' # call
         /\ call'.op = "dpi_process_packet"
         /\ call'.flow # NULL
         /\ call'.payload # NULL
         /\ call'.payload.len = 0 )
       => /\ call'.ret = 0
          /\ UNCHANGED <<config, dpiSessionVars, dpiRuleVars, dpiAlertVars>>]_vars

\* C10 witness: an empty packet was handed in for a flow that has a session
C10_Witness ==
    /\ call.op = "dpi_process_packet"
    /\ call.flow # NULL
    /\ call.payload # NULL
    /\ call.payload.len = 0
    /\ dpi_get_session(call.flow) # NULL
    /\ stats.packets_processed >= 1

\* the sessions of a table that belong to a tuple
SessionsOf(tbl, flow) == {i \in 1..Len(tbl) : tbl[i].flow = flow}

\* the step is a dpi_process_packet call that got past the argument checks
ProcessStep ==
    /\ call'.op = "dpi_process_packet"
    /\ ~call'.rejected
    /\ stats'.packets_processed = stats.packets_processed + 1

\* the session the call of the step worked on, as it is after the step
SessionAfter ==
    IF SessionsOf(sessions', call'.flow) = {} THEN NULL
    ELSE sessions'[CHOOSE i \in SessionsOf(sessions', call'.flow) : TRUE]

\* C11: the number of sessions never exceeds max_concurrent_sessions and no
\* tuple has two sessions; a dpi_process_packet call for a tuple without a
\* session on a full table creates none and leaves every session unchanged.
C11_TableBounded ==
    /\ [](/\ Len(sessions) <= config.max_concurrent_sessions
          /\ \A i, j \in 1..Len(sessions) :
                sessions[i].flow = sessions[j].flow => i = j)
    /\ [][( /\ ProcessStep
            /\ Len(sessions) = config.max_concurrent_sessions
            /\ SessionsOf(sessions, call'.flow) = {} )
          => sessions' = sessions]_vars

\* C11 witness: a packet of a tuple without a session was processed while the
\* table held max_concurrent_sessions other sessions
C11_Witness ==
    /\ call.op = "dpi_process_packet"
    /\ ~call.rejected
    /\ Len(sessions) = config.max_concurrent_sessions
    /\ SessionsOf(sessions, call.flow) = {}
    /\ stats.active_sessions = config.max_concurrent_sessions

\* the statistics that could count a lost packet: every counter except the
\* ones that count each processed packet and the session gauge
DropCounters ==
    DOMAIN stats \ {"packets_processed", "bytes_processed", "active_sessions"}

\* C12: a dpi_process_packet call whose session cannot be created (table
\* full or allocation failure) increments a drop counter of the statistics.
C12_DropCounted ==
    [][( /\ ProcessStep
         /\ SessionsOf(sessions', call'.flow) = {} )
       => \E f \in DropCounters : dpi_get_stats'[f] > dpi_get_stats[f]]_vars

\* C13: dpi_terminate_session for a tuple that has no session returns -1 and
\* leaves the count, the order and the contents of the session table as
\* they were.
C13_TerminateMissing ==
    [][( /\ call'.op = "dpi_terminate_session"
         /\ call'.flow # NULL
         /\ SessionsOf(sessions, call'.flow) = {} )
       => /\ call'.ret = 0 - 1
          /\ sessions' = sessions]_vars

\* C13 witness: a terminate call for a tuple without a session came back
\* with -1 while another tuple's session was in the table
C13_Witness ==
    /\ call.op = "dpi_terminate_session"
    /\ call.flow # NULL
    /\ call.ret = 0 - 1
    /\ Len(sessions) >= 1
    /\ SessionsOf(sessions, call.flow) = {}

\* C14: session ids are assigned in strictly increasing order of creation,
\* so no id is assigned twice, also when a tuple's session is terminated
\* and a new one is created for it.
C14_SessionIdsIncrease ==
    /\ \A i, j \in 1..Len(created) : i < j => created[i] < created[j]
    /\ \A i \in 1..Len(sessions) :
          \E k \in 1..Len(created) : created[k] = sessions[i].session_id

\* C14 witness: more sessions were created than there are tuples, so some
\* tuple's session was terminated and created again, and the newest session
\* is in the table
C14_Witness ==
    /\ Len(created) > Cardinality(FlowsDpi)
    /\ call.op = "dpi_process_packet"
    /\ ~call.rejected
    /\ CallSession # NULL
    /\ CallSession.session_id = created[Len(created)]

\* C15: every session holds at most 10 anomaly records.
C15_AnomalyCap ==
    \A i \in 1..Len(sessions) :
        /\ sessions[i].anomaly_count <= 10
        /\ sessions[i].anomalies # NULL => Len(sessions[i].anomalies.arr) <= 10

\* C15 witness: a session holds 10 anomaly records and a later anomalous
\* packet was turned away at the cap
C15_Witness ==
    \E i \in 1..Len(sessions) :
        /\ sessions[i].anomaly_count = 10
        /\ sessions[i].anomalies # NULL
        /\ Len(sessions[i].anomalies.arr) = 10
        /\ sessions[i].cap_hits >= 1

\* the baseline predicates of the anomaly detector, by anomaly type
AnomalyHolds(type, s, p) ==
    /\ s.protocol.protocol = DPI_PROTO_HTTP
    /\ CASE type = 1 -> p.len > 8192
         [] type = 2 -> PatternOccurs(STR_UA, p)
         [] type = 3 -> s.flow.dst_port # 80 /\ s.flow.dst_port # 8080

\* C16: every anomaly the detector finds, recorded or dropped at the cap,
\* increments anomalies_detected.
C16_AnomaliesCounted ==
    [][( /\ ProcessStep
         /\ config.enable_anomaly_detection
         /\ SessionAfter # NULL
         /\ \E type \in 1..3 : AnomalyHolds(type, SessionAfter, call'.payload) )
       => dpi_get_stats'.anomalies_detected > dpi_get_stats.anomalies_detected]_vars

\* the session's list holds an anomaly of the type and severity
Recorded(s, type, severity) ==
    /\ s.anomalies # NULL
    /\ \E k \in 1..Len(s.anomalies.arr) :
          /\ s.anomalies.arr[k] # Uninit
          /\ s.anomalies.arr[k].anomaly_type = type
          /\ s.anomalies.arr[k].severity = severity

\* C17: with anomaly detection enabled and fewer than 10 anomalies on the
\* session, each baseline predicate that holds for the packet records an
\* anomaly of its own type and severity (1/5 oversize, 2/3 User-Agent,
\* 3/4 non-standard port), all of them when several hold.
C17_EachPredicateRecorded ==
    ( /\ CallSession # NULL
      /\ config.enable_anomaly_detection
      /\ CallSession.packets_seen = 1 )
    => /\ AnomalyHolds(1, CallSession, call.payload) => Recorded(CallSession, 1, 5)
       /\ AnomalyHolds(2, CallSession, call.payload) => Recorded(CallSession, 2, 3)
       /\ AnomalyHolds(3, CallSession, call.payload) => Recorded(CallSession, 3, 4)

\* the queued alerts from head to tail, oldest first
RECURSIVE PendingFrom(_, _)
PendingFrom(a, head) ==
    IF head = a.tail THEN <<>>
    ELSE <<IF head \in DOMAIN a.queue THEN a.queue[head] ELSE ZeroAlert>>
         \o PendingFrom(a, (head + 1) % a.capacity)

Pending(a) == PendingFrom(a, a.head)

Min(a, b) == IF a < b THEN a ELSE b

\* C18: a dpi_get_alerts call with clear_after_read = true writes the oldest
\* queued alerts in queue order with non-decreasing alert_id, and removes
\* exactly those entries from the queue.
C18_DrainIsFifo ==
    [][( /\ call'.op = "dpi_get_alerts"
         /\ call'.buf_ok
         /\ call'.clear_after_read )
       => LET q == Pending(alerts)
              n == Len(call'.out)
          IN /\ n <= Len(q)
             /\ call'.out = SubSeq(q, 1, n)
             /\ \A i, j \in 1..n : i < j => call'.out[i].alert_id <= call'.out[j].alert_id
             /\ alerts'.head < alerts'.capacity
             /\ Pending(alerts') = SubSeq(q, n + 1, Len(q))
             /\ call'.ret = n]_vars

\* C18 witness: a clearing drain returned two alerts across the wrap of the
\* ring and left a third one queued
C18_Witness ==
    /\ call.op = "dpi_get_alerts"
    /\ call.clear_after_read
    /\ Len(call.out) = 2
    /\ alerts.head < alerts.tail
    /\ alerts.head < 2
    /\ Cardinality(DOMAIN alerts.queue) = 3
    /\ DPI_MAX_ALERTS - 1 \in DOMAIN alerts.queue

\* C19: a dpi_get_alerts call with clear_after_read = false returns the
\* first min(max_alerts, queued) entries in queue order, each once, and
\* leaves the queue as it was.
C19_PeekIsFifo ==
    [][( /\ call'.op = "dpi_get_alerts"
         /\ call'.buf_ok
         /\ ~call'.clear_after_read )
       => LET q == Pending(alerts)
          IN /\ call'.out = SubSeq(q, 1, Min(call'.max_alerts, Len(q)))
             /\ alerts' = alerts]_vars

\* the statistics counter of a protocol, "" when it has none
PacketCounter(protocol) ==
    CASE protocol = DPI_PROTO_HTTP -> "http_packets"
      [] protocol = DPI_PROTO_DNS -> "dns_packets"
      [] protocol = DPI_PROTO_HTTPS -> "tls_packets"
      [] protocol = DPI_PROTO_SMTP -> "smtp_packets"
      [] protocol = DPI_PROTO_SMB -> "smb_packets"
      [] OTHER -> ""

\* C20: a dpi_process_packet call that updates a session classified as HTTP,
\* DNS, TLS, SMTP or SMB increments that protocol's packet counter.
C20_ProtocolCounters ==
    [][( /\ ProcessStep
         /\ SessionAfter # NULL
         /\ PacketCounter(SessionAfter.protocol.protocol) # "" )
       => LET f == PacketCounter(SessionAfter.protocol.protocol)
          IN dpi_get_stats'[f] = dpi_get_stats[f] + 1]_vars

\* C21: a successful dpi_add_rule followed by dpi_remove_rule with the
\* returned id brings the rule count back to what it was before the add.
C21_AddRemoveRestoresCount ==
    [][( /\ call.op = "dpi_add_rule"
         /\ call.ret # 0
         /\ call'.op = "dpi_remove_rule"
         /\ call'.rule_id = call.ret )
       => /\ ~call'.aborted
          /\ call'.ret = 0
          /\ Len(rules') = Len(rules) - 1]_vars

\* the last call was a lookup that got past its argument checks
LookupDone ==
    /\ call.op = "flow_table_lookup"
    /\ call.tuple # NULL
    /\ call.flow_ok

\* C22: after n >= 1 flow_table_update calls for a tuple, interleaved with
\* updates for other tuples, the record lookup returns for it has
\* packets = n and bytes = the sum of the payload lengths of those calls.
C22_LookupCountsUpdates ==
    (LookupDone /\ capture_log.updates[call.tuple].n >= 1)
    => /\ call.ret = 0
       /\ caller.flow # Untouched
       /\ caller.flow.packets = capture_log.updates[call.tuple].n
       /\ caller.flow.bytes = capture_log.updates[call.tuple].bytes

\* C23: a lookup that directly follows a successful update of the same tuple
\* finds a record whose tuple equals it in all six fields, whatever the
\* table held before.
C23_LookupAfterUpdate ==
    [][( /\ call.op = "flow_table_update"
         /\ call.ret = 0
         /\ call'.op = "flow_table_lookup"
         /\ call'.flow_ok
         /\ call'.tuple = call.tuple )
       => /\ call'.ret = 0
          /\ caller'.flow # Untouched
          /\ caller'.flow.tuple = call.tuple]_vars

\* C24: a lookup for a tuple that no update was ever made for returns 1 and
\* leaves the caller's FlowRecord as it was.
C24_LookupOfUnknownTuple ==
    (LookupDone /\ capture_log.updates[call.tuple].n = 0)
    => /\ call.ret = 1
       /\ caller.flow = Untouched

\* the slots of the table that hold a flow
Occupied ==
    IF flow_table.entries = NULL THEN {}
    ELSE {i \in DOMAIN flow_table.entries :
             flow_table.entries[i].flow.tuple.src_ip # 0}

\* C25: every flow record in the table has packets >= 1, bytes >= packets
\* and first_seen_ns <= last_seen_ns.
C25_FlowRecordSane ==
    \A i \in Occupied :
        LET f == flow_table.entries[i].flow
        IN /\ f.packets >= 1
           /\ f.bytes >= f.packets
           /\ f.first_seen_ns <= f.last_seen_ns

\* C26: every flow record in the table has bytes_fwd + bytes_rev = bytes.
C26_DirectionBytesAddUp ==
    \A i \in Occupied :
        LET f == flow_table.entries[i].flow
        IN f.bytes_fwd + f.bytes_rev = f.bytes

\* C27: the ring buffer always has write_pos >= read_pos and
\* write_pos - read_pos <= size.
C27_RingWithinSize ==
    /\ ring_buffer.write_pos >= ring_buffer.read_pos
    /\ ring_buffer.write_pos - ring_buffer.read_pos <= ring_buffer.size

\* C27 witness: the ring is full and an append was dropped
C27_Witness ==
    /\ call.op = "ringbuffer_append"
    /\ call.ret = UINT32_MAX
    /\ ring_buffer.write_pos - ring_buffer.read_pos = ring_buffer.size
    /\ Len(capture_log.appended) >= 2

\* C28: ringbuffer_append fails exactly when size - (write_pos - read_pos)
\* is less than len; a failed append returns UINT32_MAX and leaves
\* write_pos, read_pos and the caller's packet_id alone; a successful one
\* returns an offset below size and advances write_pos by len.
C28_AppendOutcome ==
    [][(call'.op = "ringbuffer_append")
       => LET rb == ring_buffer
              fails == rb.size - (rb.write_pos - rb.read_pos) < call'.len
          IN IF fails
             THEN /\ call'.ret = UINT32_MAX
                  /\ ring_buffer'.write_pos = rb.write_pos
                  /\ ring_buffer'.read_pos = rb.read_pos
                  /\ caller'.packet_id = caller.packet_id
             ELSE /\ call'.ret \in 0..(rb.size - 1)
                  /\ ring_buffer'.write_pos = rb.write_pos + call'.len
                  /\ ring_buffer'.read_pos = rb.read_pos]_vars

\* C28 witness: an append was dropped from a ring that is partly filled,
\* after an append that succeeded
C28_Witness ==
    /\ call.op = "ringbuffer_append"
    /\ call.ret = UINT32_MAX
    /\ Len(capture_log.appended) >= 1
    /\ ring_buffer.write_pos > 0
    /\ ring_buffer.write_pos < ring_buffer.size
    /\ caller.packet_id = ring_buffer.write_pos

\* C29: each successful append yields a packet_id greater than the
\* packet_id of every earlier successful append.
C29_PacketIdsIncrease ==
    \A i, j \in 1..Len(capture_log.appended) :
        i < j => capture_log.appended[i] < capture_log.appended[j]

\* C30: a second capture_cleanup on a session has no further effect and
\* touches nothing the first call released.
C30_CleanupIdempotent ==
    [][( /\ call'.op = "capture_cleanup"
         /\ call'.session_ok
         /\ capture.cleanups >= 1 )
       => /\ capture'.faults = capture.faults
          /\ ~capture'.crashed
          /\ [capture' EXCEPT !.cleanups = 0] = [capture EXCEPT !.cleanups = 0]
          /\ UNCHANGED <<ring_buffer, flow_table>>]_vars

\* the table without the sessions of a tuple, the others in their order
Without(tbl, flow) == SelectSeq(tbl, LAMBDA s : s.flow # flow)

\* C33: dpi_terminate_session for a tuple that has a session returns 0 and
\* removes exactly that session: the tuple has no session afterwards, the
\* count is one lower, and the other sessions are unchanged and in the
\* order they had.
C33_TerminateRemovesOne ==
    [][( /\ call'.op = "dpi_terminate_session"
         /\ call'.flow # NULL
         /\ SessionsOf(sessions, call'.flow) # {} )
       => /\ call'.ret = 0
          /\ SessionsOf(sessions', call'.flow) = {}
          /\ FindSession(sessions', call'.flow) = 0
          /\ Len(sessions') = Len(sessions) - 1
          /\ sessions' = Without(sessions, call'.flow)]_vars

\* C33 witness: a terminate call removed the first session of a table that
\* held two, and the other one is still there
C33_Witness ==
    /\ call.op = "dpi_terminate_session"
    /\ call.flow # NULL
    /\ call.ret = 0
    /\ Len(sessions) = 1
    /\ Len(created) >= 2
    /\ sessions[1].session_id = created[Len(created)]
    /\ SessionsOf(sessions, call.flow) = {}

\* C39: the active_sessions value dpi_get_stats returns equals the number
\* of sessions in the session table.
C39_ActiveSessionsIsCount ==
    dpi_get_stats.active_sessions = Len(sessions)

\* the bytes appended successfully add up to the size of the ring
RingFull == ring_buffer.write_pos - ring_buffer.read_pos = ring_buffer.size

\* C40: no operation advances read_pos, so once the ring is full it stays
\* full, and every later ringbuffer_append of at least one byte is dropped.
C40_FullRingDropsForever ==
    /\ [][ring_buffer'.read_pos = ring_buffer.read_pos]_vars
    /\ [](RingFull => []RingFull)
    /\ [][( /\ RingFull
            /\ call'.op = "ringbuffer_append"
            /\ call'.len >= 1 )
          => /\ call'.ret = UINT32_MAX
             /\ ring_buffer' = ring_buffer]_vars

\* C40 witness: an append of one byte was dropped from a ring whose last
\* successful append had filled it
C40_Witness ==
    /\ RingFull
    /\ call.op = "ringbuffer_append"
    /\ call.len = 1
    /\ call.ret = UINT32_MAX
    /\ capture_log.appended # <<>>
    /\ capture_log.appended[Len(capture_log.appended)] = ring_buffer.size

\* C38: the table's count equals the number of occupied slots, and
\* flow_table_get_all reports a count equal to the number of records it
\* filled in.
C38_CountIsOccupied ==
    /\ flow_table.entries # NULL => flow_table.count = Cardinality(Occupied)
    /\ (call.op = "flow_table_get_all" /\ call.ret = 0)
       => call.count = Len(call.filled)

\* C34: over dpi_add_rule, dpi_remove_rule and dpi_shutdown, regfree is
\* applied only to slots a regcomp filled successfully, no matcher is
\* released twice, and after dpi_shutdown every compiled matcher has been
\* released.
C34_MatchersReleasedOnce ==
    /\ \A k \in 1..Len(regex_freed) : regex_freed[k].st = "compiled"
    /\ \A j, k \in 1..Len(regex_freed) :
          (j # k /\ regex_freed[j].h # 0) => regex_freed[j].h # regex_freed[k].h
    /\ ShutDown => \A h \in 1..regex_made : h \in ReleasedHandles

\* C37: under any interleaving of concurrent dpi_add_rule calls, rule_count
\* never exceeds max_rules, so no rule is written at an index >= max_rules.
C37_RuleCountBounded ==
    Len(rules) <= MaxRules

\* C35: in no interleaving with a concurrent dpi_terminate_session does
\* dpi_classify_protocol or dpi_get_protocol_data read a session after it
\* has been freed.
C35_NoUseAfterTerminate ==
    call.op \in ReaderOps => ~call.freed

\* C36: in no interleaving with a concurrent capture_flow_disable does
\* capture_flow_lookup or capture_flow_get_all use the flow table's lock or
\* its entries after capture_flow_disable has released them.
C36_NoUseAfterDisable ==
    /\ LockAfterDestroy \notin capture.faults
    /\ EntriesAfterFree \notin capture.faults

\* the table a sequence of updates leaves when they run one after another
RECURSIVE Replay(_, _)
Replay(ft, us) ==
    IF us = <<>> THEN ft
    ELSE LET u == Head(us)
             entry == ft.entries[u.idx]
         IN Replay([ft EXCEPT
                       !.entries[u.idx] =
                           UpdatedEntry(entry, u.arg.tuple, u.flow_id, u.arg.payload_len,
                                        u.arg.packet_id, u.arg.timestamp_ns),
                       !.count = IF SlotIsFree(entry) THEN @ + 1 ELSE @],
                   Tail(us))

EmptyTable ==
    [entries |-> [i \in 0..(FlowTableSize - 1) |-> ZeroEntry],
     size |-> FlowTableSize, count |-> 0]

\* the updates that went to slot i, in the order they were made
DoneAt(i) == SelectSeq(capture_log.done, LAMBDA u : u.idx = i)

RECURSIVE PayloadSum(_)
PayloadSum(us) == IF us = <<>> THEN 0 ELSE Head(us).arg.payload_len + PayloadSum(Tail(us))

Quiet == \A t \in Threads : threads[t] = Idle

\* C32: flow_table_update calls made from several threads are linearizable.
\* The table always equals the result of running the updates made so far one
\* after another, in the order in which they held the write lock, so none is
\* lost: a slot's packets is the number of updates that went to it, its bytes
\* their payload sum, and once every call has returned the updates counted
\* per tuple add up to the updates made.
C32_UpdatesLinearizable ==
    /\ flow_table = Replay(EmptyTable, capture_log.done)
    /\ \A i \in 0..(FlowTableSize - 1) :
           /\ flow_table.entries[i].flow.packets = Len(DoneAt(i))
           /\ flow_table.entries[i].flow.bytes = PayloadSum(DoneAt(i))
    /\ Quiet =>
           /\ UpdatesMade = Len(capture_log.done)
           /\ \A x \in TuplesUpd, i \in 0..(FlowTableSize - 1) :
                  (/\ DoneAt(i) # <<>>
                   /\ \A k \in 1..Len(capture_log.done) :
                          capture_log.done[k].idx = i <=> capture_log.done[k].arg.tuple = x)
                  => /\ flow_table.entries[i].flow.tuple = x
                     /\ flow_table.entries[i].flow.packets = capture_log.updates[x].n
                     /\ flow_table.entries[i].flow.bytes = capture_log.updates[x].bytes

\* two threads have updated the same slot with the same tuple, one after the
\* other, and every call has returned
C32_Witness ==
    /\ Quiet
    /\ \E i, j \in 1..Len(capture_log.done) :
           /\ i < j
           /\ capture_log.done[i].thread # capture_log.done[j].thread
           /\ capture_log.done[i].idx = capture_log.done[j].idx
           /\ capture_log.done[i].arg.tuple = capture_log.done[j].arg.tuple
           /\ capture_log.done[j].arg.packet_id = capture_log.done[i].arg.packet_id + 1
           /\ capture_log.done[j].arg.payload_len = 100
    /\ \E i \in 0..(FlowTableSize - 1) : flow_table.entries[i].flow.packets = 2


\* the stated order of the engine's locks
LockRank(l) ==
    CASE l = "sessions" -> 1
      [] l = "rules" -> 2
      [] l = "alerts" -> 3
      [] l = "stats" -> 4
      [] OTHER -> 0

InOrder(held, l) ==
    /\ LockRank(l) > 0 => \A h \in held : LockRank(h) > 0 => LockRank(h) < LockRank(l)
    /\ l = "session_lock" => held \cap {"ring_lock", "flow_lock"} = {}

Running(t) == threads[t].pc = "locks"

Waiting(t) == Running(t) /\ NextCall(t).kind # "unlock" /\ ~CanLock(t)

====
